---- MODULE Spec2Model ----
(***************************************************************************)
(* Model of the orchestration engine of AI-Devops-Workbench:               *)
(*   src/orchestration-engine/meta_orchestrator.py   (pattern selection,   *)
(*       the four pattern executors, synthesis, validation, history)       *)
(*   src/orchestration-engine/intelligence_engine.py (conflict severity)   *)
(*   src/.archive/src/orchestrator.py                (MetaOrchestrator)    *)
(*                                                                         *)
(* Text is modelled as a sequence (objective) or set (conflict map) of     *)
(* words; Python's `kw in text` is the substring test, tabulated per word  *)
(* in KeywordsIn.  No keyword of the code contains a space, so a keyword   *)
(* occurs in the joined text iff it occurs in one of its words.            *)
(***************************************************************************)
EXTENDS Integers, Sequences, FiniteSets, TLC

(* ------------------------------ bounds -------------------------------- *)
\* longest objective (in words) drawn for the pattern-selection function
MaxWords == 3
\* longest objective (in words) of a request run through the whole pipeline
MaxPipelineWords == 2
\* largest number of entries drawn for request.technical_requirements
MaxTechReq == 4
\* largest number of entries drawn for request.constraints
MaxConstraints == 3
\* most words in one self-declared potential_conflicts map
MaxConflictWords == 2

(* --------------------------- text vocabulary --------------------------- *)
Words == {"architecture", "decision", "architecture_decision",
          "security", "review", "frontend"}

\* the keywords of the code's scans that occur (as substrings) in each word
KeywordsIn(w) ==
    CASE w = "architecture"          -> {"architecture"}
      [] w = "architecture_decision" -> {"architecture", "architecture_decision"}
      [] w = "security"              -> {"security"}
      [] w = "review"                -> {"review"}
      [] w = "frontend"              -> {"frontend"}
      [] w = "database"              -> {"database"}
      [] w = "cannot"                -> {"cannot"}
      [] w = "performance"           -> {"performance"}
      [] w = "bottleneck"            -> {"bottleneck"}
      [] OTHER                       -> {}

\* all sequences over S of length at most n
RECURSIVE SeqsUpTo(_, _)
SeqsUpTo(S, n) ==
    IF n = 0 THEN {<<>>}
    ELSE LET shorter == SeqsUpTo(S, n - 1)
         IN  shorter \cup {Append(s, w) : s \in shorter, w \in S}

\* objective=None: a request whose objective is not a string
NoObjective == <<"<None>">>

\* `kw in request.objective.lower()`
InObjective(kw, objective) ==
    \E i \in 1..Len(objective) : kw \in KeywordsIn(objective[i])

\* any(keyword in request.objective.lower() for keyword in kws)
AnyIn(kws, objective) == \E kw \in kws : InObjective(kw, objective)

(* ------------------------------ TaskAnalyzer --------------------------- *)
AgentNames == {"senior-architect", "security-consultant", "ux-strategist",
               "backend-builder", "frontend-builder"}

BoolToInt(b) == IF b THEN 1 ELSE 0

\* _assess_task_complexity
_assess_task_complexity(request) ==
    LET o == request.objective
        ind == [multiple_systems |-> AnyIn({"integration", "microservice", "api", "database"}, o),
                security_critical |-> AnyIn({"security", "auth", "permission", "encryption"}, o),
                ui_component |-> AnyIn({"frontend", "ui", "interface", "component"}, o),
                architecture_change |-> AnyIn({"architecture", "design", "refactor", "restructure"}, o),
                performance_critical |-> AnyIn({"performance", "optimization", "scaling", "speed"}, o),
                conflicts_likely |-> (request.technical_requirements > 3
                                      \/ request.constraints > 2),
                parallel_work_possible |-> (InObjective("analysis", o)
                                            \/ InObjective("review", o))]
        score == BoolToInt(ind.multiple_systems) + BoolToInt(ind.security_critical)
                 + BoolToInt(ind.ui_component) + BoolToInt(ind.architecture_change)
                 + BoolToInt(ind.performance_critical) + BoolToInt(ind.conflicts_likely)
                 + BoolToInt(ind.parallel_work_possible)
    IN  [conflicts_likely |-> ind.conflicts_likely,
         parallel_work_possible |-> ind.parallel_work_possible,
         complexity_score |-> score,
         complexity_level |-> IF score >= 4 THEN "high"
                              ELSE IF score >= 2 THEN "medium" ELSE "low"]

\* _determine_required_expertise, as the set the final list(set(...)) holds
_determine_required_expertise(request) ==
    LET o == request.objective
        hits ==
            (IF AnyIn({"architecture", "design", "system", "integration"}, o)
                THEN {"senior-architect"} ELSE {})
            \cup (IF AnyIn({"security", "auth", "permission", "encryption", "vulnerability"}, o)
                THEN {"security-consultant"} ELSE {})
            \cup (IF AnyIn({"ui", "ux", "user", "interface", "frontend"}, o)
                THEN {"ux-strategist"} ELSE {})
            \cup (IF AnyIn({"api", "backend", "server", "database", "microservice"}, o)
                THEN {"backend-builder"} ELSE {})
            \cup (IF AnyIn({"frontend", "ui", "react", "vue", "angular", "component"}, o)
                THEN {"frontend-builder"} ELSE {})
    IN  IF hits = {} THEN {"senior-architect"} ELSE hits

\* the phrase test of _analyze_development_task, line 263:
\* 'architecture_decision' in request.objective.lower()
HasArchitectureDecisionToken(objective) ==
    InObjective("architecture_decision", objective)

\* _analyze_development_task: the pattern of the orchestration plan
SelectPattern(request) ==
    LET task_complexity == _assess_task_complexity(request)
        required_expertise == _determine_required_expertise(request)
    IN  IF Cardinality(required_expertise) = 1 THEN "sequential"
        ELSE IF task_complexity.conflicts_likely
                \/ HasArchitectureDecisionToken(request.objective) THEN "consensus"
        ELSE IF task_complexity.parallel_work_possible THEN "mapreduce"
        ELSE IF "senior-architect" \in required_expertise
                /\ Cardinality(required_expertise) > 2 THEN "hierarchical"
        ELSE "sequential"

(* ------------------------------- state --------------------------------- *)
VARIABLES
    call,                \* arguments of the function under check (pure checks)
    ret,                 \* its return value, Pending until it has returned
    env,                 \* the files an AgentLoader finds (archive orchestrator)
    request,             \* the DevelopmentRequest passed to process_development_request
    active_agents,       \* self.active_agents: agent name -> kind of its config
    pc,                  \* position of process_development_request
    pattern,             \* orchestration_plan['pattern']
    agents,              \* selected_agents, in list order
    phase,               \* the executor (and its step) that is running
    batch,               \* agent names of the consultations of the running step
    batch_context,       \* context of the request handed to a concurrent batch
    tasks,               \* per consultation of the batch: state, context seen, outcome
    done_order,          \* batch indices in the order the consultations resolved
    seq_results,         \* `results` of _execute_sequential_workflow
    accumulated_context, \* `accumulated_context` of _execute_sequential_workflow
    architect_response,  \* `architect_response` of _execute_hierarchical_delegation
    results,             \* the list the pattern executor returned
    response,            \* what process_development_request returned
    conversation_history, \* self.conversation_history
    technical_decisions, \* self.technical_decisions, the decision registry
    quality_metrics      \* self.quality_metrics: objective -> quality_validation

harnessVars == <<call, ret, env>>
histVars == <<conversation_history, technical_decisions, quality_metrics>>
orchVars == <<request, active_agents, pc, pattern, agents, phase, batch,
              batch_context, tasks, done_order, seq_results, accumulated_context,
              architect_response, results, response, conversation_history,
              technical_decisions, quality_metrics>>
vars == <<call, ret, env, request, active_agents, pc, pattern, agents, phase,
          batch, batch_context, tasks, done_order, seq_results,
          accumulated_context, architect_response, results, response,
          conversation_history, technical_decisions, quality_metrics>>

Pending == [kind |-> "pending"]
NoCall == [fn |-> "none"]
NoEnv == [loader |-> "none"]
NoResponse == [status |-> "none"]
NoRequest == [objective |-> <<>>, technical_requirements |-> 0,
              constraints |-> 0, context |-> {}]

AgentConfigKinds == {"absent", "ok", "no_methodology"}

\* the orchestrator before any request: only the registry is loaded
OrchestratorLoaded(cfg) ==
    /\ active_agents = cfg
    /\ pc = "idle"
    /\ pattern = "none"
    /\ agents = <<>>
    /\ phase = "none"
    /\ batch = <<>>
    /\ batch_context = {}
    /\ tasks = <<>>
    /\ done_order = <<>>
    /\ seq_results = <<>>
    /\ accumulated_context = {}
    /\ architect_response = NoResponse
    /\ results = <<>>
    /\ response = NoResponse
    /\ conversation_history = <<>>
    /\ technical_decisions = <<>>
    /\ quality_metrics = <<>>

NoAgentsLoaded == [a \in AgentNames |-> "absent"]

(* ===================== pattern selection (pure) ======================== *)
Objectives == SeqsUpTo(Words, MaxWords)

AnalysisRequests ==
    [objective : Objectives,
     technical_requirements : 0..MaxTechReq,
     constraints : 0..MaxConstraints,
     context : {{}}]

InitSelect ==
    /\ call \in {[fn |-> "_analyze_development_task", request |-> r] :
                    r \in AnalysisRequests}
    /\ ret = Pending
    /\ env = NoEnv
    /\ request = NoRequest
    /\ OrchestratorLoaded(NoAgentsLoaded)

\* await self._analyze_development_task(request)
AnalyzeTask ==
    /\ call.fn = "_analyze_development_task"
    /\ ret = Pending
    /\ ret' = [kind |-> "return",
               pattern |-> SelectPattern(call.request),
               complexity |-> _assess_task_complexity(call.request),
               required_expertise |-> _determine_required_expertise(call.request)]
    /\ UNCHANGED <<call, env>>
    /\ UNCHANGED orchVars

NextSelect == AnalyzeTask

SpecSelect == InitSelect /\ [][NextSelect]_vars

\* the phrase "architecture decision" in the objective: the two words in a
\* row, or (read generously) the code's single token architecture_decision
HasArchitectureDecisionPhrase(objective) ==
    \/ \E i \in 1..(Len(objective) - 1) :
        objective[i] = "architecture" /\ objective[i + 1] = "decision"
    \/ \E i \in 1..Len(objective) : objective[i] = "architecture_decision"

\* the first-match rule list as the specification words it
RuleListPattern(r) ==
    LET caps == _determine_required_expertise(r)
        conflicts_likely == r.technical_requirements > 3 \/ r.constraints > 2
        parallel_work_possible == InObjective("analysis", r.objective)
                                  \/ InObjective("review", r.objective)
    IN  IF Cardinality(caps) = 1 THEN "sequential"
        ELSE IF conflicts_likely \/ HasArchitectureDecisionPhrase(r.objective)
            THEN "consensus"
        ELSE IF parallel_work_possible THEN "mapreduce"
        ELSE IF "senior-architect" \in caps /\ Cardinality(caps) > 2
            THEN "hierarchical"
        ELSE "sequential"

\* C7: the pattern the analysis returns is the one the first-match rule list
\* gives for the request (with Consensus for the phrase "architecture decision"),
\* and the analysis changes nothing but its own return value.
C7_PatternIsRuleList ==
    (call.fn = "_analyze_development_task" /\ ret # Pending)
        => (ret.pattern = RuleListPattern(call.request)
            /\ request = NoRequest
            /\ OrchestratorLoaded(NoAgentsLoaded))

(* ===================== conflict classification (pure) ================== *)
\* tokens of a self-declared potential_conflicts map; every token is an entry
\* under a key of its own, so that the merge {**conflicts1, **conflicts2} of
\* two maps holds the tokens of both
ConflictWords == {"security", "cannot", "performance", "naming"}

RECURSIVE SubsetsUpTo(_, _)
SubsetsUpTo(S, n) ==
    IF n = 0 THEN {{}}
    ELSE LET smaller == SubsetsUpTo(S, n - 1)
         IN  smaller \cup {t \cup {w} : t \in smaller, w \in S}

ConflictMaps == SubsetsUpTo(ConflictWords, MaxConflictWords)

\* `kw in conflict_text`, conflict_text = str(all_conflicts).lower()
InText(kw, text) == \E w \in text : kw \in KeywordsIn(w)

AnyInText(kws, text) == \E kw \in kws : InText(kw, text)

\* _classify_conflict: the conflict type, first matching branch
ConflictTypeOf(text) ==
    IF InText("architecture", text) \/ InText("design", text)
        THEN "architecture_disagreement"
    ELSE IF InText("technology", text) \/ InText("framework", text)
        THEN "technology_choice_conflict"
    ELSE IF InText("security", text) /\ InText("performance", text)
        THEN "security_vs_performance"
    ELSE IF InText("implementation", text) \/ InText("approach", text)
        THEN "implementation_approach_conflict"
    ELSE IF InText("pattern", text) THEN "design_pattern_disagreement"
    ELSE "scope_overlap"

\* _classify_conflict: severity_indicators
SeverityIndicators(text) ==
    (IF AnyInText({"security", "architecture", "database"}, text) THEN 2 ELSE 0)
    + (IF AnyInText({"cannot", "incompatible", "conflicts", "contradicts"}, text)
        THEN 2 ELSE 0)
    + (IF AnyInText({"performance", "scalability", "bottleneck"}, text) THEN 1 ELSE 0)

\* a slip in the threshold chain: == 2 where the code has >= 2
SeverityOf_ExactlyTwo(severity_indicators) ==
    IF severity_indicators >= 4 THEN "critical"
    ELSE IF severity_indicators = 2 THEN "high"
    ELSE IF severity_indicators >= 1 THEN "moderate"
    ELSE "low"

\* _classify_conflict: the severity thresholds
SeverityOf(severity_indicators) ==
    IF severity_indicators >= 4 THEN "critical"
    ELSE IF severity_indicators >= 2 THEN "high"
    ELSE IF severity_indicators >= 1 THEN "moderate"
    ELSE "low"

\* _classify_conflict(conflicts1, conflicts2, response1, response2)
_classify_conflict(conflicts1, conflicts2) ==
    LET all_conflicts == conflicts1 \cup conflicts2
    IN  [conflict_type |-> ConflictTypeOf(all_conflicts),
         severity |-> SeverityOf(SeverityIndicators(all_conflicts))]

InitClassify ==
    /\ call \in [fn : {"_classify_conflict"},
                 a : [conflicts1 : ConflictMaps, conflicts2 : ConflictMaps],
                 b : [conflicts1 : ConflictMaps, conflicts2 : ConflictMaps]]
    /\ ret = Pending
    /\ env = NoEnv
    /\ request = NoRequest
    /\ OrchestratorLoaded(NoAgentsLoaded)

\* two calls of _classify_conflict, on the pair a and on the pair b
ClassifyBoth ==
    /\ call.fn = "_classify_conflict"
    /\ ret = Pending
    /\ ret' = [kind |-> "return",
               a |-> _classify_conflict(call.a.conflicts1, call.a.conflicts2),
               b |-> _classify_conflict(call.b.conflicts1, call.b.conflicts2)]
    /\ UNCHANGED <<call, env>>
    /\ UNCHANGED orchVars

NextClassify == ClassifyBoth

SpecClassify == InitClassify /\ [][NextClassify]_vars

SeverityRank(sev) ==
    CASE sev = "low" -> 0 [] sev = "moderate" -> 1
      [] sev = "high" -> 2 [] sev = "critical" -> 3

\* the severity-indicator keyword groups a conflict text matches
MatchedGroups(pair) ==
    LET text == pair.conflicts1 \cup pair.conflicts2
    IN  (IF AnyInText({"security", "architecture", "database"}, text)
            THEN {"high_impact"} ELSE {})
        \cup (IF AnyInText({"cannot", "incompatible", "conflicts", "contradicts"}, text)
            THEN {"blocking"} ELSE {})
        \cup (IF AnyInText({"performance", "scalability", "bottleneck"}, text)
            THEN {"performance"} ELSE {})

\* C10 as stated: a text that matches at least as many groups as another has a
\* severity at least as high.
C10_MonotoneInGroupCount ==
    (call.fn = "_classify_conflict" /\ ret # Pending)
        => (Cardinality(MatchedGroups(call.a)) >= Cardinality(MatchedGroups(call.b))
            => SeverityRank(ret.a.severity) >= SeverityRank(ret.b.severity))

\* C10 amended: a text that matches every group another text matches (so its
\* additive score is at least as large) has a severity at least as high.
C10_MonotoneInGroupInclusion ==
    (call.fn = "_classify_conflict" /\ ret # Pending)
        => (MatchedGroups(call.b) \subseteq MatchedGroups(call.a)
            => SeverityRank(ret.a.severity) >= SeverityRank(ret.b.severity))

\* C10 witness: both texts are classified, a matches the high-impact and the
\* blocking group, b only the high-impact group: b is high and a is critical.
C10_Witness ==
    /\ call.fn = "_classify_conflict" /\ ret # Pending
    /\ MatchedGroups(call.b) = {"high_impact"}
    /\ MatchedGroups(call.a) = {"high_impact", "blocking"}
    /\ ret.b.severity = "high" /\ ret.a.severity = "critical"

(* ============================ Consult ================================== *)
AgentConfigs == [AgentNames -> AgentConfigKinds]

\* agent_name in self.active_agents
IsActive(agent_name) ==
    agent_name \in AgentNames /\ active_agents[agent_name] # "absent"

\* AgentResponse(status='failed', errors=...): every other field at its default
FailedResponse(errors) ==
    [status |-> "failed", errors |-> errors, agent_name |-> "",
     technical_decisions |-> <<>>, potential_conflicts |-> {}]

\* the technical_decisions of the placeholder response, by agent type
PlaceholderDecisions(agent_name) ==
    IF agent_name = "senior-architect"
        THEN <<"Architecture Pattern", "Technology Stack">>
    ELSE IF agent_name = "security-consultant"
        THEN <<"Security Controls", "Data Protection">>
    ELSE <<>>

\* the AgentResponse(status='success', ...) _consult_agent builds
SuccessResponse(agent_name) ==
    [status |-> "success", errors |-> <<>>, agent_name |-> agent_name,
     technical_decisions |-> PlaceholderDecisions(agent_name),
     potential_conflicts |-> {}]

\* how a call ended: it returned `value`, or it raised (str(e) = exc)
Returned(value) == [kind |-> "return", value |-> value, exc |-> <<>>]
Raised(exc) == [kind |-> "raise", value |-> NoResponse, exc |-> exc]

\* the body of the try block of _consult_agent: reading
\* agent_config['agent_identity']['methodology'] raises KeyError when the
\* validated config has no methodology entry
ConsultTryBlock(agent_name) ==
    IF active_agents[agent_name] = "no_methodology"
        THEN Raised(<<"'methodology'">>)
    ELSE Returned(SuccessResponse(agent_name))

\* _consult_agent without its `except Exception` clause
_consult_agent_no_except(agent_name, req) ==
    IF ~IsActive(agent_name)
        THEN Returned(FailedResponse(<<"Agent '", agent_name, "' not available">>))
    ELSE ConsultTryBlock(agent_name)

\* _consult_agent(agent_name, request)
_consult_agent(agent_name, req) ==
    IF ~IsActive(agent_name)
        THEN Returned(FailedResponse(<<"Agent '", agent_name, "' not available">>))
    ELSE LET body == ConsultTryBlock(agent_name)
         IN  IF body.kind = "raise"
                THEN Returned(FailedResponse(body.exc))
             ELSE body

ConsultIds == AgentNames \cup {"unknown-agent"}

InitConsult ==
    /\ call \in [fn : {"_consult_agent"}, agent_name : ConsultIds]
    /\ ret = Pending
    /\ env = NoEnv
    /\ request = NoRequest
    /\ \E cfg \in AgentConfigs : OrchestratorLoaded(cfg)

\* await self._consult_agent(agent_name, request), called directly
ConsultOnce ==
    /\ call.fn = "_consult_agent"
    /\ ret = Pending
    /\ ret' = _consult_agent(call.agent_name, request)
    /\ UNCHANGED <<call, env>>
    /\ UNCHANGED orchVars

NextConsult == ConsultOnce

SpecConsult == InitConsult /\ [][NextConsult]_vars

\* C6: a consultation always returns (it never raises); for an id that is
\* no active profile, and for a profile whose consultation raised inside, the
\* returned output has status "failed" and a non-empty error text.
C6_ConsultNeverRaises ==
    (call.fn = "_consult_agent" /\ ret # Pending)
        => /\ ret.kind = "return"
           /\ (~IsActive(call.agent_name)
                \/ active_agents[call.agent_name] = "no_methodology")
                => (ret.value.status = "failed" /\ ret.value.errors # <<>>)

\* C6 witness: the consultation of an active profile without a methodology
\* entry raised inside and came back as a failed output with error text.
C6_Witness ==
    /\ call.fn = "_consult_agent" /\ ret # Pending
    /\ IsActive(call.agent_name)
    /\ active_agents[call.agent_name] = "no_methodology"
    /\ ret.kind = "return"
    /\ ret.value.status = "failed"
    /\ ret.value.errors = <<"'methodology'">>

(* ============ MetaOrchestrator.coordinate (archive orchestrator) ======== *)
\* most agent ids in request['agents']
MaxRequestAgents == 2

\* ids a request can name; content_agent is the default of request.get('agents')
ArchiveAgentIds == {"content_agent", "nonexistent_agent"}

\* what AgentLoader.load_agent finds for an id under agents_dir/examples:
\*   missing            no such file (FileNotFoundError)
\*   invalid            a required key is missing (ValueError)
\*   valid              loads; its output_schema keys are those of the mock output
\*   valid_wide_schema  loads; its output_schema names a key the mock output lacks
\*   valid_no_expertise loads; agent_identity has no 'expertise' entry
LoaderKinds == {"missing", "invalid", "valid", "valid_wide_schema", "valid_no_expertise"}

Loads(kind) == kind \in {"valid", "valid_wide_schema", "valid_no_expertise"}

OrchestrationPatternValues == {"sequential", "mapreduce", "consensus", "hierarchical"}

\* scores are kept in hundredths (85.0 is 8500)
DefaultQualityThreshold == 8500

\* requests: a dict with any subset of the usable keys, or no dict at all
CoordinateRequests ==
    {[is_dict |-> TRUE, keys |-> ks, agents |-> ag, pattern |-> pt,
      quality_threshold |-> qt] :
        ks \in SUBSET {"agents", "pattern", "quality_threshold"},
        ag \in SeqsUpTo(ArchiveAgentIds, MaxRequestAgents),
        pt \in {"sequential", "consensus", "bogus"},
        qt \in {DefaultQualityThreshold, 9500}}
    \cup {[is_dict |-> FALSE, keys |-> {}, agents |-> <<>>, pattern |-> "sequential",
           quality_threshold |-> DefaultQualityThreshold]}

\* request.get(key, default)
RequestGet(req, key, default) ==
    IF key \in req.keys THEN req[key] ELSE default

\* the configs coordinate could load, in request order (lines 244-250)
RECURSIVE LoadAgents(_, _)
LoadAgents(names, files) ==
    IF names = <<>> THEN <<>>
    ELSE IF Loads(files[Head(names)])
        THEN <<[name |-> Head(names), kind |-> files[Head(names)]]>>
             \o LoadAgents(Tail(names), files)
    ELSE LoadAgents(Tail(names), files)

\* _create_error_result(error_message, start_time)
_create_error_result(error_message) ==
    [status |-> "FAILED", deliverable_error |-> error_message,
     metadata_error |-> error_message, agent_outputs |-> <<>>, overall |-> 0]

\* QualityValidator.validate_output on the resolved mock output, in hundredths:
\* consistency 92, completeness 95 (70 when the schema names a missing key),
\* methodology 88, confidence 89
OverallQuality(primary_kind) ==
    (9200 + (IF primary_kind = "valid_wide_schema" THEN 7000 ELSE 9500)
        + 8800 + 8900) \div 4

\* coordinate(request): body of the try block, with what it raises
CoordinateTryBlock(req, files) ==
    IF ~req.is_dict
        THEN Raised(<<"'NoneType' object has no attribute 'get'">>)
    ELSE LET required_agents == RequestGet(req, "agents", <<"content_agent">>)
             pattern_value == RequestGet(req, "pattern", "sequential")
             quality_threshold ==
                RequestGet(req, "quality_threshold", DefaultQualityThreshold)
             agent_configs == LoadAgents(required_agents, files)
         IN  IF pattern_value \notin OrchestrationPatternValues
                THEN Raised(<<"'", pattern_value, "' is not a valid OrchestrationPattern">>)
             ELSE IF agent_configs = <<>>
                THEN Returned(_create_error_result(<<"No agents could be loaded">>))
             ELSE IF \E i \in 1..Len(agent_configs) :
                        agent_configs[i].kind = "valid_no_expertise"
                THEN Raised(<<"'expertise'">>)
             ELSE LET overall == OverallQuality(agent_configs[1].kind)
                  IN  Returned(
                        [status |-> IF overall >= quality_threshold THEN "SUCCESS"
                                    ELSE IF overall >= 7000 THEN "PARTIAL"
                                    ELSE "FAILED",
                         deliverable_error |-> <<>>,
                         metadata_error |-> <<>>,
                         agent_outputs |-> [i \in 1..Len(agent_configs) |->
                                                agent_configs[i].name],
                         overall |-> overall])

\* MetaOrchestrator.coordinate(request)
coordinate(req, files) ==
    LET body == CoordinateTryBlock(req, files)
    IN  IF body.kind = "raise"
            THEN [kind |-> "return", value |-> _create_error_result(body.exc),
                  exc |-> <<>>]
        ELSE body

InitCoordinate ==
    /\ call \in [fn : {"coordinate"}, request : CoordinateRequests]
    /\ ret = Pending
    /\ env \in [loader : {"AgentLoader"}, files : [ArchiveAgentIds -> LoaderKinds]]
    /\ request = NoRequest
    /\ OrchestratorLoaded(NoAgentsLoaded)

\* orchestrator.coordinate(request)
Coordinate ==
    /\ call.fn = "coordinate"
    /\ ret = Pending
    /\ ret' = coordinate(call.request, env.files)
    /\ UNCHANGED <<call, env>>
    /\ UNCHANGED orchVars

NextCoordinate == Coordinate

SpecCoordinate == InitCoordinate /\ [][NextCoordinate]_vars

\* the request names agent ids, none of which can be loaded (and, read in the
\* claim's favour, gives no pattern or a valid one)
NamesOnlyUnloadableAgents(req, files) ==
    /\ req.is_dict
    /\ "agents" \in req.keys
    /\ \A i \in 1..Len(req.agents) : ~Loads(files[req.agents[i]])
    /\ RequestGet(req, "pattern", "sequential") \in OrchestrationPatternValues

\* a malformed request: a dict with none of the fields coordinate reads
WithoutUsableFields(req) == req.is_dict /\ req.keys = {}

\* C9: coordinate never raises, and for a request naming only ids that cannot
\* be loaded, and for a malformed request without usable fields, it returns
\* status FAILED with the error "No agents could be loaded" in deliverable and
\* metadata and an empty agent-output list.
C9_NoAgentsLoadedIsFailed ==
    (call.fn = "coordinate" /\ ret # Pending)
        => /\ ret.kind = "return"
           /\ (NamesOnlyUnloadableAgents(call.request, env.files)
                \/ WithoutUsableFields(call.request))
                => /\ ret.value.status = "FAILED"
                   /\ ret.value.deliverable_error = <<"No agents could be loaded">>
                   /\ ret.value.metadata_error = <<"No agents could be loaded">>
                   /\ ret.value.agent_outputs = <<>>

(* ================= process_development_request (pipeline) =============== *)
\* context maps are sets of entries; a key is <<owner, name>>
Entry(owner, name, val) == [key |-> <<owner, name>>, val |-> val]

KeysOf(context) == {e.key : e \in context}

\* dict.update / {**context, ...}: entries of `new` replace those with equal keys
DictUpdate(context, new) ==
    {e \in context : e.key \notin KeysOf(new)} \cup new

\* entries a caller may have put in request.context; the second one uses the
\* key the sequential executor derives for the architect's recommendations,
\* the third one the key the hierarchical executor gives the architect's result
UserContextEntries ==
    {Entry("user", "existing_system", "user"),
     Entry("senior-architect", "recommendations", "user"),
     Entry("architect", "architect_guidance", "user")}

PipelineRequests ==
    [objective : SeqsUpTo(Words, MaxPipelineWords) \cup {NoObjective},
     technical_requirements : {0, MaxTechReq},
     constraints : {0},
     context : SUBSET UserContextEntries]

\* the agents whose config a request can touch: those its objective requires
\* and senior-architect, the default of _select_agents_for_task
TouchedAgents(r) ==
    IF r.objective = NoObjective THEN {}
    ELSE _determine_required_expertise(r) \cup {"senior-architect"}

Init ==
    /\ call = NoCall
    /\ ret = Pending
    /\ env = NoEnv
    /\ request \in PipelineRequests
    /\ \E cfg \in AgentConfigs :
        /\ \A a \in AgentNames \ TouchedAgents(request) : cfg[a] = "absent"
        /\ OrchestratorLoaded(cfg)

\* the orders list(set(required_agents)) can come out in
RECURSIVE ListsOf(_)
ListsOf(S) ==
    IF S = {} THEN {<<>>}
    ELSE UNION {{<<x>> \o l : l \in ListsOf(S \ {x})} : x \in S}

RECURSIVE FilterActive(_)
FilterActive(names) ==
    IF names = <<>> THEN <<>>
    ELSE IF IsActive(Head(names))
        THEN <<Head(names)>> \o FilterActive(Tail(names))
    ELSE FilterActive(Tail(names))

\* _select_agents_for_task(orchestration_plan)
_select_agents_for_task(required_agents) ==
    LET available_agents == FilterActive(required_agents)
    IN  IF available_agents # <<>> THEN available_agents
        ELSE IF IsActive("senior-architect") THEN <<"senior-architect">>
        ELSE <<>>

\* one consultation that has not started; once started, `context` is the
\* content of request.context at the hand-over and `context_ref` names the
\* dict object that request.context is
PendingTask ==
    [st |-> "pending", context |-> {}, context_ref |-> "none", outcome |-> Pending]

FreshTasks(names) == [i \in 1..Len(names) |-> PendingTask]

InSeq(x, sq) == \E i \in 1..Len(sq) : sq[i] = x

RECURSIVE Without(_, _)
Without(sq, x) ==
    IF sq = <<>> THEN <<>>
    ELSE IF Head(sq) = x THEN Without(Tail(sq), x)
    ELSE <<Head(sq)>> \o Without(Tail(sq), x)

\* _create_error_response(error_message, request)
_create_error_response(error_message) ==
    [status |-> "failed",
     keys |-> {"status", "error", "request_objective", "timestamp",
               "fallback_recommendations"},
     error |-> error_message,
     successful_consultations |-> 0,
     failed_consultations |-> 0,
     quality_score |-> 0,
     quality_warnings |-> {}]

RECURSIVE CountStatus(_, _)
CountStatus(rs, status) ==
    IF rs = <<>> THEN 0
    ELSE (IF Head(rs).status = status THEN 1 ELSE 0) + CountStatus(Tail(rs), status)

\* a slip in the short-circuit: fail as soon as one consultation failed
_synthesize_development_results_any_failed(rs) ==
    IF CountStatus(rs, "failed") > 0 \/ rs = <<>>
        THEN [status |-> "failed",
              keys |-> {"status", "error", "failed_agents"},
              error |-> <<"No agents provided successful consultations">>,
              successful_consultations |-> 0,
              failed_consultations |-> CountStatus(rs, "failed"),
              quality_score |-> 0,
              quality_warnings |-> {}]
    ELSE [status |-> "success",
          keys |-> {"status", "synthesis_summary", "technical_guidance",
                    "risk_assessment", "next_steps", "detailed_agent_responses"},
          error |-> <<>>,
          successful_consultations |-> CountStatus(rs, "success"),
          failed_consultations |-> CountStatus(rs, "failed"),
          quality_score |-> 0,
          quality_warnings |-> {}]

\* _synthesize_development_results(results, request)
_synthesize_development_results(rs) ==
    IF CountStatus(rs, "success") = 0
        THEN [status |-> "failed",
              keys |-> {"status", "error", "failed_agents"},
              error |-> <<"No agents provided successful consultations">>,
              successful_consultations |-> 0,
              failed_consultations |-> CountStatus(rs, "failed"),
              quality_score |-> 0,
              quality_warnings |-> {}]
    ELSE [status |-> "success",
          keys |-> {"status", "synthesis_summary", "technical_guidance",
                    "risk_assessment", "next_steps", "detailed_agent_responses"},
          error |-> <<>>,
          successful_consultations |-> CountStatus(rs, "success"),
          failed_consultations |-> CountStatus(rs, "failed"),
          quality_score |-> 0,
          quality_warnings |-> {}]

\* the five quality checks of _validate_development_quality; the requests of
\* this model carry the default success_criteria "" (always met)
QualityChecks(resp) ==
    [has_technical_guidance |-> "technical_guidance" \in resp.keys,
     has_implementation_approach |-> "technical_guidance" \in resp.keys,
     has_risk_assessment |-> "risk_assessment" \in resp.keys,
     has_next_steps |-> "next_steps" \in resp.keys,
     meets_success_criteria |-> TRUE]

\* _validate_development_quality(response, request); quality_score counts the
\* passed checks (of 5), so `quality_score < 0.8` is `passed < 4`
_validate_development_quality(resp) ==
    LET checks == QualityChecks(resp)
        failing == {c \in DOMAIN checks : ~checks[c]}
        passed == Cardinality(DOMAIN checks) - Cardinality(failing)
    IN  [resp EXCEPT
            !.keys = @ \cup {"quality_validation"}
                       \cup (IF passed < 4 THEN {"quality_warnings"} ELSE {}),
            !.quality_score = passed,
            !.quality_warnings = IF passed < 4 THEN failing ELSE {}]

(* ------------------------- pattern executors --------------------------- *)
\* the three entries _execute_sequential_workflow derives from a response
DerivedEntries(agent_name) ==
    {Entry(agent_name, "recommendations", "agent"),
     Entry(agent_name, "decisions", "agent"),
     Entry(agent_name, "constraints", "agent")}

\* a slip: the context is replaced by the new entries instead of updated
AccumulateContext_Replace(context, agent_name, resp) ==
    IF resp.status = "success" THEN DerivedEntries(agent_name) ELSE context

\* _execute_sequential_workflow, lines 391-397: accumulate after a success
AccumulateContext(context, agent_name, resp) ==
    IF resp.status = "success"
        THEN DictUpdate(context, DerivedEntries(agent_name))
    ELSE context

\* a slip: the next consultation is issued once the earlier ones were issued
SeqMayStart_NoWait(i) ==
    /\ tasks[i].st = "pending"
    /\ \A j \in 1..(i - 1) : tasks[j].st # "pending"

\* the for loop of _execute_sequential_workflow awaits each consultation:
\* iteration i begins once every earlier iteration has finished
SeqMayStart(i) ==
    /\ tasks[i].st = "pending"
    /\ \A j \in 1..(i - 1) : tasks[j].st = "done"

\* the phases whose consultations asyncio.gather runs concurrently
ConcurrentPhases == {"parallel", "consensus", "specialists"}

\* asyncio.gather schedules its coroutines in argument order and the event
\* loop starts them first-in first-out; none waits for another to resolve
GatherMayStart(i) ==
    /\ tasks[i].st = "pending"
    /\ \A j \in 1..(i - 1) : tasks[j].st # "pending"

\* what the caller of a consultation gets: the response, or (sequential
\* `except Exception`, gather's return_exceptions=True) a failed response
\* built from the exception
AsResponse(outcome) ==
    IF outcome.kind = "raise" THEN FailedResponse(outcome.exc)
    ELSE outcome.value

\* a slip: the results are collected as the consultations complete
GatherResults_AsCompleted ==
    [i \in 1..Len(done_order) |-> AsResponse(tasks[done_order[i]].outcome)]

\* a slip: one failed consultation fails the whole batch (lines 428-430)
GatherResults_FailFast ==
    IF \E i \in 1..Len(tasks) : AsResponse(tasks[i].outcome).status = "failed"
        THEN <<FailedResponse(<<"Parallel execution failed">>)>>
    ELSE [i \in 1..Len(tasks) |-> AsResponse(tasks[i].outcome)]

\* _execute_parallel_analysis, lines 415-426: the gathered results in task order
GatherResults ==
    [i \in 1..Len(tasks) |-> AsResponse(tasks[i].outcome)]

\* _detect_response_conflicts(responses) is non-empty
ConflictsDetected(rs) ==
    \E i \in 1..Len(rs) : \E j \in (i + 1)..Len(rs) :
        rs[i].potential_conflicts # {} /\ rs[j].potential_conflicts # {}

\* a slip: only the responses that declared conflicts are annotated
ConsensusAnnotated_OnlyConflicting(rs) ==
    [i \in 1..Len(rs) |->
        IF rs[i].potential_conflicts = {} THEN rs[i]
        ELSE [rs[i] EXCEPT !.potential_conflicts = @ \cup {"consensus_attempted"}]]

\* _resolve_conflicts_through_consensus: annotate every response
ConsensusAnnotated(rs) ==
    [i \in 1..Len(rs) |->
        [rs[i] EXCEPT !.potential_conflicts = @ \cup {"consensus_attempted"}]]

\* the list the running executor returns once its consultations are done
ExecutorResults ==
    CASE phase = "sequential" -> seq_results
      [] phase = "parallel" -> GatherResults
      [] phase = "consensus" ->
            IF ConflictsDetected(GatherResults)
                THEN ConsensusAnnotated(GatherResults)
            ELSE GatherResults
      [] phase = "specialists" -> <<architect_response>> \o GatherResults

\* a slip: the specialists are given the original request
GuidedContext_Unguided(context) == context

\* the entries 'architect_guidance': architect_response.result and
\* 'technical_direction': architect_response.technical_decisions
ArchitectGuidance ==
    {Entry("architect", "architect_guidance", "agent"),
     Entry("architect", "technical_direction", "agent")}

\* context of guided_request in _execute_hierarchical_delegation
GuidedContext(context) ==
    DictUpdate(context, ArchitectGuidance)

\* a slip in the await: go on as soon as one consultation of the batch is done
AllDone_FirstCompleted ==
    tasks = <<>> \/ \E i \in 1..Len(tasks) : tasks[i].st = "done"

\* await asyncio.gather(*tasks) / the end of the sequential loop: every
\* consultation of the batch has resolved
AllDone == \A i \in 1..Len(tasks) : tasks[i].st = "done"

(* --------------------------- history update ---------------------------- *)
\* _get_timestamp(): datetime.now(), kept as the number of requests whose
\* context was recorded before; a later record carries a later timestamp
_get_timestamp == Len(conversation_history)

RECURSIVE SuccessfulResults(_)
SuccessfulResults(rs) ==
    IF rs = <<>> THEN <<>>
    ELSE (IF Head(rs).status = "success" THEN <<Head(rs)>> ELSE <<>>)
         \o SuccessfulResults(Tail(rs))

\* response['detailed_agent_responses'], the 'agent' of each entry
DetailedAgents(resp, rs) ==
    IF "detailed_agent_responses" \in resp.keys
        THEN [i \in 1..Len(SuccessfulResults(rs)) |->
                SuccessfulResults(rs)[i].agent_name]
    ELSE <<>>

RECURSIVE Concat(_)
Concat(sqs) == IF sqs = <<>> THEN <<>> ELSE Head(sqs) \o Concat(Tail(sqs))

\* response['technical_guidance']['technical_decisions']: the decisions of
\* the successful results, in result order ([] without technical_guidance)
GuidanceDecisions(resp, rs) ==
    IF "technical_guidance" \in resp.keys
        THEN Concat([i \in 1..Len(SuccessfulResults(rs)) |->
                        SuccessfulResults(rs)[i].technical_decisions])
    ELSE <<>>

\* response['quality_validation'] as _validate_development_quality builds it
QualityValidation(resp) ==
    [quality_checks |-> QualityChecks(resp),
     quality_score |-> resp.quality_score,
     validation_passed |-> resp.quality_score >= 4,
     validation_timestamp |-> _get_timestamp]

\* dict item assignment d[key] = value
DictSet(d, key, value) ==
    [k \in DOMAIN d \cup {key} |-> IF k = key THEN value ELSE d[k]]

\* _update_development_context(request, response); rs is the list of results
\* the response was synthesized from
_update_development_context(req, resp, rs) ==
    [conversation_history |->
        Append(conversation_history,
               [timestamp |-> _get_timestamp,
                request_objective |-> req.objective,
                agents_consulted |-> DetailedAgents(resp, rs),
                technical_decisions |-> GuidanceDecisions(resp, rs),
                quality_score |-> resp.quality_score]),
     technical_decisions |->
        IF "technical_guidance" \in resp.keys
            THEN technical_decisions \o GuidanceDecisions(resp, rs)
        ELSE technical_decisions,
     quality_metrics |->
        IF "quality_validation" \in resp.keys
            THEN DictSet(quality_metrics, req.objective, QualityValidation(resp))
        ELSE quality_metrics]

\* the dict object the running executor passes as request.context:
\* _execute_sequential_workflow builds every updated_request around the one
\* dict accumulated_context, the specialists share guided_request, every other
\* batch is given the caller's request itself
ContextRef ==
    CASE phase = "sequential" -> "accumulated_context"
      [] phase = "specialists" -> "guided_request.context"
      [] OTHER -> "request.context"

\* the present content of a dict object
ContextObject(ref) ==
    CASE ref = "accumulated_context" -> accumulated_context
      [] ref = "guided_request.context" -> batch_context
      [] OTHER -> request.context

(* ------------------------------ actions -------------------------------- *)
\* process_development_request up to its first consultation: analysis,
\* agent selection and the entry of the selected pattern's executor
Begin ==
    /\ pc = "idle"
    /\ call = NoCall
    /\ \/ /\ request.objective = NoObjective
          /\ response' = _create_error_response(
                            <<"'NoneType' object has no attribute 'lower'">>)
          /\ pc' = "done"
          /\ UNCHANGED <<pattern, agents, phase, batch, batch_context, tasks,
                         done_order, seq_results, accumulated_context,
                         architect_response, results>>
       \/ /\ request.objective # NoObjective
          /\ \E required \in ListsOf(_determine_required_expertise(request)) :
                LET selected == _select_agents_for_task(required)
                    pat == SelectPattern(request)
                    ph == CASE pat = "sequential" -> "sequential"
                            [] pat = "mapreduce" -> "parallel"
                            [] pat = "consensus" -> "consensus"
                            [] pat = "hierarchical" ->
                                IF InSeq("senior-architect", selected)
                                    THEN "architect" ELSE "sequential"
                    names == IF ph = "architect" THEN <<"senior-architect">>
                             ELSE selected
                IN  /\ pattern' = pat
                    /\ agents' = selected
                    /\ phase' = ph
                    /\ batch' = names
                    /\ tasks' = FreshTasks(names)
          /\ batch_context' = request.context
          /\ accumulated_context' = request.context
          /\ done_order' = <<>>
          /\ seq_results' = <<>>
          /\ pc' = "executing"
          /\ UNCHANGED <<architect_response, results, response>>
    /\ UNCHANGED <<call, ret, env, request, active_agents>>
    /\ UNCHANGED histVars

\* a consultation is issued: the coroutine _consult_agent(agent, request)
\* starts with the request (and context) built for it
StartConsult(i) ==
    /\ pc = "executing"
    /\ i \in 1..Len(tasks)
    /\ tasks[i].st = "pending"
    /\ IF phase \in ConcurrentPhases THEN GatherMayStart(i) ELSE SeqMayStart(i)
    /\ tasks' = [tasks EXCEPT ![i] =
                    [st |-> "running",
                     context |-> IF phase = "sequential" THEN accumulated_context
                                 ELSE batch_context,
                     context_ref |-> ContextRef,
                     outcome |-> Pending]]
    /\ UNCHANGED <<call, ret, env, request, active_agents, pc, pattern, agents,
                   phase, batch, batch_context, done_order, seq_results,
                   accumulated_context, architect_response, results, response>>
    /\ UNCHANGED histVars

\* a consultation resolves; in the sequential loop the caller appends the
\* response and accumulates the context before its next iteration
ResolveConsult(i) ==
    /\ pc = "executing"
    /\ i \in 1..Len(tasks)
    /\ tasks[i].st = "running"
    /\ LET outcome == _consult_agent(batch[i], request)
       IN  /\ tasks' = [tasks EXCEPT ![i].st = "done", ![i].outcome = outcome]
           /\ done_order' = Append(done_order, i)
           /\ IF phase = "sequential"
                THEN /\ seq_results' = Append(seq_results, AsResponse(outcome))
                     /\ accumulated_context' =
                            AccumulateContext(accumulated_context, batch[i],
                                              AsResponse(outcome))
                ELSE UNCHANGED <<seq_results, accumulated_context>>
    /\ UNCHANGED <<call, ret, env, request, active_agents, pc, pattern, agents,
                   phase, batch, batch_context, architect_response, results,
                   response>>
    /\ UNCHANGED histVars

\* _execute_hierarchical_delegation after the architect's consultation:
\* fall back to parallel over `agents`, or brief the specialists
ArchitectResolved ==
    /\ pc = "executing"
    /\ phase = "architect"
    /\ AllDone
    /\ LET arch == AsResponse(tasks[1].outcome)
       IN  \/ /\ arch.status # "success"
              /\ phase' = "parallel"
              /\ batch' = agents
              /\ batch_context' = request.context
              /\ UNCHANGED architect_response
           \/ /\ arch.status = "success"
              /\ phase' = "specialists"
              /\ batch' = Without(agents, "senior-architect")
              /\ batch_context' = GuidedContext(request.context)
              /\ architect_response' = arch
    /\ tasks' = FreshTasks(batch')
    /\ done_order' = <<>>
    /\ UNCHANGED <<call, ret, env, request, active_agents, pc, pattern, agents,
                   seq_results, accumulated_context, results, response>>
    /\ UNCHANGED histVars

\* the executor returns; synthesis, quality validation, the update of the
\* orchestrator's history and the return of process_development_request
\* follow without another suspension
Finish ==
    /\ pc = "executing"
    /\ phase \in {"sequential"} \cup ConcurrentPhases
    /\ AllDone
    /\ results' = ExecutorResults
    /\ response' = _validate_development_quality(
                        _synthesize_development_results(ExecutorResults))
    /\ LET updated == _update_development_context(request, response',
                                                   ExecutorResults)
       IN  /\ conversation_history' = updated.conversation_history
           /\ technical_decisions' = updated.technical_decisions
           /\ quality_metrics' = updated.quality_metrics
    /\ pc' = "done"
    /\ UNCHANGED <<call, ret, env, request, active_agents, pattern, agents,
                   phase, batch, batch_context, tasks, done_order, seq_results,
                   accumulated_context, architect_response>>

Next ==
    \/ Begin
    \/ \E i \in 1..Len(tasks) : StartConsult(i)
    \/ \E i \in 1..Len(tasks) : ResolveConsult(i)
    \/ ArchitectResolved
    \/ Finish

Spec == Init /\ [][Next]_vars

(* ------------------- several requests on one instance ------------------ *)
\* requests whose context one orchestrator instance records before it is
\* given no further request
MaxRequests == 2

\* a sequential, a hierarchical and a malformed request
HistoryRequests ==
    [objective : {<<"security">>, <<"architecture", "frontend">>, NoObjective},
     technical_requirements : {0},
     constraints : {0},
     context : {{}}]

\* the agents the objectives of HistoryRequests require
HistoryAgents == {"senior-architect", "security-consultant", "ux-strategist",
                  "frontend-builder"}

InitHistory ==
    /\ call = NoCall
    /\ ret = Pending
    /\ env = NoEnv
    /\ request \in HistoryRequests
    /\ \E cfg \in AgentConfigs :
        /\ \A a \in AgentNames \ HistoryAgents : cfg[a] = "absent"
        /\ \A a \in HistoryAgents \ {"senior-architect"} : cfg[a] = "ok"
        /\ cfg["senior-architect"] # "absent"
        /\ OrchestratorLoaded(cfg)

\* the caller passes another request to process_development_request of the
\* same instance once the previous call has returned: the locals of the
\* call start afresh, the attributes of the instance stay
NewRequest ==
    /\ pc = "done"
    /\ Len(conversation_history) < MaxRequests
    /\ request' \in HistoryRequests
    /\ pc' = "idle"
    /\ pattern' = "none"
    /\ agents' = <<>>
    /\ phase' = "none"
    /\ batch' = <<>>
    /\ batch_context' = {}
    /\ tasks' = <<>>
    /\ done_order' = <<>>
    /\ seq_results' = <<>>
    /\ accumulated_context' = {}
    /\ architect_response' = NoResponse
    /\ results' = <<>>
    /\ response' = NoResponse
    /\ UNCHANGED <<call, ret, env, active_agents>>
    /\ UNCHANGED histVars

NextHistory ==
    \/ Next
    \/ NewRequest

SpecHistory == InitHistory /\ [][NextHistory]_vars

\* C19: in Hierarchical execution with the architect selected, when the
\* architect's consultation has failed the fallback Parallel batch holds the
\* remaining contributors only: the architect is not in it, so it is not
\* consulted a second time.
C19_FallbackSkipsArchitect ==
    (pattern = "hierarchical" /\ phase = "parallel")
        => ~InSeq("senior-architect", batch)

\* Hierarchical execution with a successful architect; `kept` is the part of
\* the original context a specialist's context must still hold
HierarchicalGuided(kept) ==
    /\ (pattern = "hierarchical" /\ phase = "architect")
            => batch = <<"senior-architect">>
    /\ (pattern = "hierarchical" /\ phase = "specialists")
            => /\ architect_response.status = "success"
               /\ architect_response.agent_name = "senior-architect"
               /\ ~InSeq("senior-architect", batch)
               /\ \A i \in 1..Len(tasks) :
                    tasks[i].st # "pending"
                        => /\ ArchitectGuidance \subseteq tasks[i].context
                           /\ kept \subseteq tasks[i].context
               /\ pc = "done"
                    => /\ Len(results) = 1 + Len(batch)
                       /\ results[1] = architect_response
                       /\ \A i \in 1..Len(batch) :
                            /\ results[i + 1] = AsResponse(tasks[i].outcome)
                            /\ results[i + 1].status = "success"
                                    => results[i + 1].agent_name = batch[i]

\* C20 as stated: with a successful architect no specialist starts before the
\* architect has resolved, every specialist's context holds the architect's
\* result and technical decisions next to the whole original context, and the
\* returned list is the architect's output followed by the specialists'.
C20_GuidanceAddedToOriginalContext ==
    HierarchicalGuided(request.context)

\* C20, amended: as above, but of the original context a specialist sees the
\* entries under keys other than architect_guidance and technical_direction;
\* the architect's entries replace the caller's under those two keys.
C20_GuidanceOverridesOriginalContext ==
    HierarchicalGuided({e \in request.context : e.key \notin KeysOf(ArchitectGuidance)})

C20_Witness ==
    /\ pattern = "hierarchical" /\ phase = "specialists" /\ pc = "done"
    /\ Len(batch) >= 2
    /\ request.context = UserContextEntries
    /\ \A i \in 1..Len(results) : results[i].status = "success"
    /\ \A i \in 1..Len(tasks) :
        tasks[i].context = DictUpdate(UserContextEntries, ArchitectGuidance)

\* C22: requests are immutable: the caller's request is never changed, and
\* the context of a request handed to a contributor keeps the content it had
\* at the hand-over, whatever the executor accumulates later.
C22_HandedContextUnchanged ==
    /\ \A i \in 1..Len(tasks) :
        tasks[i].st # "pending"
            => ContextObject(tasks[i].context_ref) = tasks[i].context
    /\ pc = "executing" /\ phase # "sequential" /\ phase # "specialists"
            => batch_context = request.context

IsPrefix(s, t) == Len(s) <= Len(t) /\ \A i \in 1..Len(s) : t[i] = s[i]

\* C17: the history of one orchestrator instance is append-only: no step of
\* any call removes or overwrites an entry of the conversation log, of the
\* decision registry or of the quality metrics; in particular a later request
\* with the same objective leaves the earlier quality-metric entry in place.
C17_HistoryIsAppendOnly ==
    [][/\ IsPrefix(conversation_history, conversation_history')
       /\ IsPrefix(technical_decisions, technical_decisions')
       /\ \A objective \in DOMAIN quality_metrics :
            /\ objective \in DOMAIN quality_metrics'
            /\ quality_metrics'[objective] = quality_metrics[objective]]_vars

(* ====================== intelligence engine ============================ *)
\* bounds of the engine's inputs
MaxResponses == 2
MaxAnalyses == 2

\* metadata.agent_name of the responses handed to the engine
EngineAgentNames == {"security-consultant", "senior-architect"}

\* tokens of a response's `result` dict: the first is a key, the others
\* are phrases of its values
ResultTokens == {"security_analysis", "refactor", "best practices",
                 "temporary", "unit test", "microservices"}

\* the keywords of the engine's scans that occur (as substrings) in
\* str(result).lower() for each token of the result
ResultKeywordsIn(w) ==
    CASE w = "security_analysis" -> {"security", "security_analysis"}
      [] w = "refactor"          -> {"refactor"}
      [] w = "best practices"    -> {"best practices"}
      [] w = "temporary"         -> {"temporary"}
      [] w = "unit test"         -> {"test", "unit test"}
      [] w = "microservices"     -> {"microservices"}
      [] OTHER                   -> {}

\* `kw in result_text`, result_text = str(response.get('result', {})).lower()
InResult(kw, result) == \E w \in result : kw \in ResultKeywordsIn(w)

\* decision names and recommendations of technical_decisions entries
DecisionNames == {"Authentication", "Caching"}
Recommendations == {"OAuth2", "Session cookies"}

TechnicalDecisions == [decision : DecisionNames, recommendation : Recommendations]

\* text.lower().split() of a decision name or a recommendation
WordsOf(text) ==
    CASE text = "Authentication"  -> {"authentication"}
      [] text = "Caching"         -> {"caching"}
      [] text = "OAuth2"          -> {"oauth2"}
      [] text = "Session cookies" -> {"session", "cookies"}
      [] OTHER                    -> {}

\* a response dict as the engine reads it
EngineResponse(agent_name, status, potential_conflicts, result, decisions) ==
    [agent_name |-> agent_name,
     status |-> status,
     potential_conflicts |-> potential_conflicts,
     result |-> result,
     technical_decisions |-> decisions,
     recommendations |-> {}]

Max2(a, b) == IF a >= b THEN a ELSE b
Min2(a, b) == IF a <= b THEN a ELSE b

\* the index pairs (i, j), i < j, in the order of the nested loops
IndexPairs(n) ==
    LET all == [k \in 1..(n * n) |-> <<((k - 1) \div n) + 1, ((k - 1) % n) + 1>>]
    IN  SelectSeq(all, LAMBDA p : p[1] < p[2])

\* _decisions_overlap: overlap_ratio > 0.3
_decisions_overlap(decision1, decision2) ==
    LET words1 == WordsOf(decision1.decision) \cup WordsOf(decision1.recommendation)
        words2 == WordsOf(decision2.decision) \cup WordsOf(decision2.recommendation)
    IN  10 * Cardinality(words1 \cap words2)
            > 3 * Max2(Max2(Cardinality(words1), Cardinality(words2)), 1)

development_topics ==
    {"architecture", "database", "api", "security", "performance", "testing",
     "deployment", "frontend", "backend", "authentication", "authorization",
     "caching", "monitoring", "logging"}

\* _find_overlap_areas, as the set of the areas it lists
_find_overlap_areas(response1, response2) ==
    {<<"technical_decision", response1.technical_decisions[a].decision>> :
        a \in {a \in 1..Len(response1.technical_decisions) :
                \E b \in 1..Len(response2.technical_decisions) :
                    _decisions_overlap(response1.technical_decisions[a],
                                       response2.technical_decisions[b])}}
    \cup {<<"domain_expertise", topic>> :
            topic \in {t \in development_topics :
                        InResult(t, response1.result) /\ InResult(t, response2.result)}}
    \cup {<<"recommendation_area", key>> :
            key \in response1.recommendations \cap response2.recommendations}

\* _detect_agent_overlaps: one AgentOverlap per pair with a non-empty area list
_detect_agent_overlaps(agent_responses) ==
    LET overlapping ==
            SelectSeq(IndexPairs(Len(agent_responses)),
                      LAMBDA p : _find_overlap_areas(agent_responses[p[1]],
                                                     agent_responses[p[2]]) # {})
    IN  [k \in 1..Len(overlapping) |->
            [agents |-> <<agent_responses[overlapping[k][1]].agent_name,
                          agent_responses[overlapping[k][2]].agent_name>>,
             overlap_areas |-> _find_overlap_areas(agent_responses[overlapping[k][1]],
                                                   agent_responses[overlapping[k][2]])]]

\* a slip: only critical conflicts are escalated
_requires_stakeholder_input_critical_only(conflict_type, severity) ==
    severity = "critical"

\* _requires_stakeholder_input
_requires_stakeholder_input(conflict_type, severity) ==
    \/ severity = "critical"
    \/ /\ severity = "high"
       /\ conflict_type \in {"architecture_disagreement", "security_vs_performance"}

NoConflict == [conflict_id |-> <<>>]

\* agent_name.split('_'): the parts of a name between its underscores
NameSegments(agent_name) ==
    CASE agent_name = "a_b" -> <<"a", "b">>
      [] agent_name = "b_a" -> <<"b", "a">>
      [] OTHER -> <<agent_name>>

\* str(n) of a history length
DecimalString(n) ==
    CASE n = 0 -> "0" [] n = 1 -> "1" [] n = 2 -> "2" [] n = 3 -> "3"
      [] n = 4 -> "4" [] n = 5 -> "5" [] n = 6 -> "6" [] n = 7 -> "7"
      [] n = 8 -> "8" [] n = 9 -> "9" [] n = 10 -> "10" [] n = 11 -> "11"
      [] n = 12 -> "12" [] n = 13 -> "13" [] n = 14 -> "14" [] n = 15 -> "15"
      [] n = 16 -> "16" [] n = 17 -> "17" [] n = 18 -> "18" [] n = 19 -> "19"
      [] n = 20 -> "20" [] n = 21 -> "21" [] n = 22 -> "22" [] n = 23 -> "23"
      [] n = 24 -> "24" [] n = 25 -> "25" [] n = 26 -> "26" [] n = 27 -> "27"

\* f"conflict_{agent1}_{agent2}_{n}", as the parts between its underscores:
\* two ids are equal strings exactly if their parts are equal
ConflictId(agent1, agent2, n) ==
    <<"conflict">> \o NameSegments(agent1) \o NameSegments(agent2)
        \o <<DecimalString(n)>>

\* a slip in the guard: `and` where the code has `or`
_detect_response_conflict_both_declare(response1, response2, conflict_history) ==
    LET classified == _classify_conflict(response1.potential_conflicts,
                                         response2.potential_conflicts)
    IN  IF response1.potential_conflicts # {} /\ response2.potential_conflicts # {}
            /\ classified.severity # "low"
        THEN [conflict_id |-> ConflictId(response1.agent_name, response2.agent_name,
                                         Len(conflict_history)),
              agents_involved |-> <<response1.agent_name, response2.agent_name>>,
              conflict_type |-> classified.conflict_type,
              severity |-> classified.severity,
              stakeholder_input_required |->
                  classified.severity = "critical"
                  \/ (classified.severity = "high"
                      /\ classified.conflict_type \in
                            {"architecture_disagreement", "security_vs_performance"})]
        ELSE [conflict_id |-> <<>>]

\* _detect_response_conflict: a ConflictAnalysis or None; the id is
\* f"conflict_{agent1}_{agent2}_{len(self.conflict_history)}"
_detect_response_conflict(response1, response2, conflict_history) ==
    LET conflicts1 == response1.potential_conflicts
        conflicts2 == response2.potential_conflicts
        classified == _classify_conflict(conflicts1, conflicts2)
    IN  IF (conflicts1 # {} \/ conflicts2 # {}) /\ classified.severity # "low"
        THEN [conflict_id |-> ConflictId(response1.agent_name, response2.agent_name,
                                         Len(conflict_history)),
              agents_involved |-> <<response1.agent_name, response2.agent_name>>,
              conflict_type |-> classified.conflict_type,
              severity |-> classified.severity,
              stakeholder_input_required |->
                  _requires_stakeholder_input(classified.conflict_type,
                                              classified.severity)]
        ELSE NoConflict

\* _analyze_conflicts: the conflicts of all pairs, in loop order
_analyze_conflicts(agent_responses, conflict_history) ==
    LET conflicting ==
            SelectSeq(IndexPairs(Len(agent_responses)),
                      LAMBDA p : _detect_response_conflict(agent_responses[p[1]],
                                     agent_responses[p[2]], conflict_history) # NoConflict)
    IN  [k \in 1..Len(conflicting) |->
            _detect_response_conflict(agent_responses[conflicting[k][1]],
                                      agent_responses[conflicting[k][2]],
                                      conflict_history)]

(* ------------------------- quality assessment -------------------------- *)
\* Scores are kept in hundredths (0.6 is 60): every score of the code is a
\* sum of multiples of 0.1.
RECURSIVE SumSeq(_)
SumSeq(sq) == IF sq = <<>> THEN 0 ELSE Head(sq) + SumSeq(Tail(sq))

\* `kw in str(decision).lower()` and `kw in decision.get('decision', '').lower()`:
\* the scanned keywords occurring in the texts of DecisionNames and
\* Recommendations (none of them occurs in the keys of the dict)
DecisionKeywordsIn(text) ==
    CASE text = "Authentication" -> {"authentication"}
      [] OTHER                   -> {}

InDecisionText(kw, decision) ==
    kw \in DecisionKeywordsIn(decision.decision)
            \cup DecisionKeywordsIn(decision.recommendation)

\* the number of technical_decisions entries d of a response with
\* any(keyword in str(d).lower() for keyword in kws)
CountDecisions(resp, kws) ==
    Cardinality({d \in 1..Len(resp.technical_decisions) :
                    \E kw \in kws : InDecisionText(kw, resp.technical_decisions[d])})

\* the number of technical_decisions entries d of a response with
\* `kw in d.get('decision', '').lower()`
CountDecisionNames(resp, kw) ==
    Cardinality({d \in 1..Len(resp.technical_decisions) :
                    kw \in DecisionKeywordsIn(resp.technical_decisions[d].decision)})

\* a slip in the status chain: > where the code has >=
MetricStatus_StrictlyAbove(score, pass_at, warning_at) ==
    IF score > pass_at THEN "pass"
    ELSE IF score >= warning_at THEN "warning"
    ELSE "fail"

\* the status chain shared by the five assessments
MetricStatus(score, pass_at, warning_at) ==
    IF score >= pass_at THEN "pass"
    ELSE IF score >= warning_at THEN "warning"
    ELSE "fail"

QualityMetrics(metric_type, score, threshold, status, improvement_suggestions) ==
    [metric_type |-> metric_type, score |-> score, threshold |-> threshold,
     status |-> status, improvement_suggestions |-> improvement_suggestions]

\* _assess_code_complexity
_assess_code_complexity(agent_responses) ==
    LET per_response(resp) ==
            BoolToInt(InResult("complex", resp.result)
                        \/ InResult("complicated", resp.result))
            + (IF InResult("microservices", resp.result) THEN 2 ELSE 0)
            + CountDecisions(resp, {"complex", "intricate", "sophisticated"})
        complexity_indicators ==
            SumSeq([i \in 1..Len(agent_responses) |-> per_response(agent_responses[i])])
        base_score == Max2(10, 100 - complexity_indicators * 20)
    IN  QualityMetrics("code_complexity", base_score, 60,
                       MetricStatus(base_score, 60, 40),
                       complexity_indicators >= 3)

\* _assess_security_score
_assess_security_score(agent_responses) ==
    LET consultants == {i \in 1..Len(agent_responses) :
                            agent_responses[i].agent_name = "security-consultant"}
        security_response ==
            agent_responses[CHOOSE i \in consultants : \A j \in consultants : i <= j]
        found_score ==
            50 + (IF "security_analysis" \in security_response.result THEN 20 ELSE 0)
               + (IF "threat_model" \in security_response.result THEN 20 ELSE 0)
               + (IF "compliance_requirements" \in security_response.result
                    THEN 10 ELSE 0)
               + 10 * CountDecisionNames(security_response, "security")
        security_score == Min2(100, IF consultants # {} THEN found_score ELSE 30)
    IN  QualityMetrics("security_score", security_score, 80,
                       MetricStatus(security_score, 80, 60),
                       consultants = {} \/ security_score < 80)

\* _assess_test_coverage
_assess_test_coverage(agent_responses) ==
    LET per_response(resp) ==
            20 * BoolToInt(InResult("test", resp.result))
            + 20 * BoolToInt(InResult("unit test", resp.result))
            + 20 * BoolToInt(InResult("integration test", resp.result))
            + 20 * BoolToInt(InResult("coverage", resp.result))
            + 20 * CountDecisionNames(resp, "test")
        test_score ==
            Min2(100, SumSeq([i \in 1..Len(agent_responses) |->
                                per_response(agent_responses[i])]))
    IN  QualityMetrics("test_coverage", test_score, 60,
                       MetricStatus(test_score, 60, 40), test_score < 60)

\* _assess_technical_debt
_assess_technical_debt(agent_responses) ==
    LET per_response(resp) ==
            20 * BoolToInt(InResult("quick fix", resp.result)
                            \/ InResult("temporary", resp.result))
            + 10 * BoolToInt(InResult("legacy", resp.result)
                            /\ InResult("maintain", resp.result))
            + 20 * BoolToInt(InResult("workaround", resp.result))
            - 10 * BoolToInt(InResult("refactor", resp.result)
                            \/ InResult("clean", resp.result))
            - 10 * BoolToInt(InResult("best practices", resp.result)
                            \/ InResult("clean code", resp.result))
        debt_risk == SumSeq([i \in 1..Len(agent_responses) |->
                                per_response(agent_responses[i])])
        debt_score == Max2(0, 100 - debt_risk)
    IN  QualityMetrics("technical_debt", debt_score, 70,
                       MetricStatus(debt_score, 70, 50), debt_score < 70)

\* _assess_maintainability
_assess_maintainability(agent_responses) ==
    LET per_response(resp) ==
            10 * BoolToInt(InResult("documentation", resp.result))
            + 10 * BoolToInt(InResult("modular", resp.result)
                            \/ InResult("component", resp.result))
            + 10 * BoolToInt(InResult("clean", resp.result)
                            /\ InResult("code", resp.result))
            + 10 * BoolToInt(InResult("pattern", resp.result))
            + 10 * BoolToInt(InResult("standard", resp.result)
                            \/ InResult("convention", resp.result))
            + 10 * CountDecisions(resp, {"maintainable", "clean", "modular", "standard"})
        maintainability_score ==
            Min2(100, 50 + SumSeq([i \in 1..Len(agent_responses) |->
                                    per_response(agent_responses[i])]))
    IN  QualityMetrics("maintainability", maintainability_score, 70,
                       MetricStatus(maintainability_score, 70, 50),
                       maintainability_score < 70)

\* _assess_code_quality: one record per metric type that has an assessment,
\* in the order of the QualityMetricType enumeration
_assess_code_quality(agent_responses) ==
    << _assess_code_complexity(agent_responses),
       _assess_test_coverage(agent_responses),
       _assess_technical_debt(agent_responses),
       _assess_security_score(agent_responses),
       _assess_maintainability(agent_responses) >>

(* --------------------------- decision points --------------------------- *)
\* the entries appended to all_decisions, in the order of the two loops
RECURSIVE DecisionEntries(_)
DecisionEntries(agent_responses) ==
    IF agent_responses = <<>> THEN <<>>
    ELSE LET first == Head(agent_responses)
         IN  [d \in 1..Len(first.technical_decisions) |->
                [decision |-> first.technical_decisions[d].decision,
                 agent |-> first.agent_name,
                 recommendation |-> first.technical_decisions[d].recommendation]]
             \o DecisionEntries(Tail(agent_responses))

\* all_decisions[decision_key]
DecisionData(entries, decision_key) ==
    SelectSeq(entries, LAMBDA e : e.decision = decision_key)

\* the two tests of _identify_decision_points: more than one entry for the
\* key and more than one distinct recommendation
IsDecisionPoint(decision_data) ==
    /\ Len(decision_data) > 1
    /\ Cardinality({decision_data[i].recommendation : i \in 1..Len(decision_data)}) > 1

\* the `options` of a TechnicalDecisionPoint (list(set(...)) fixes no order)
DecisionOptions(decision_data) ==
    {[option |-> rec,
      supporting_agents |->
        LET supporting == SelectSeq(decision_data, LAMBDA e : e.recommendation = rec)
        IN  [i \in 1..Len(supporting) |-> supporting[i].agent]] :
        rec \in {decision_data[i].recommendation : i \in 1..Len(decision_data)}}

\* _identify_decision_points
_identify_decision_points(agent_responses) ==
    LET entries == DecisionEntries(agent_responses)
        \* the keys of all_decisions that give a decision point, each at the
        \* position of its first entry (dicts keep insertion order)
        first_entries ==
            SelectSeq([i \in 1..Len(entries) |-> [index |-> i, key |-> entries[i].decision]],
                      LAMBDA x : /\ \A j \in 1..(x.index - 1) : entries[j].decision # x.key
                                 /\ IsDecisionPoint(DecisionData(entries, x.key)))
    IN  [k \in 1..Len(first_entries) |->
            LET decision_data == DecisionData(entries, first_entries[k].key)
            IN  [decision_id |-> <<"decision", k - 1>>,
                 title |-> first_entries[k].key,
                 options |-> DecisionOptions(decision_data),
                 agents_involved |->
                    [i \in 1..Len(decision_data) |-> decision_data[i].agent]]]

(* ----------------------- analyze_agent_responses ----------------------- *)
\* IntelligenceEngine.__init__
NewEngine ==
    [conflict_history |-> <<>>,
     quality_metrics_history |-> <<>>,
     technical_decisions |-> <<>>,
     agent_performance_tracking |-> <<>>]

\* metadata.confidence is absent from the responses: the default 0.5
DefaultConfidence == 50

\* the body of the loop of _update_intelligence_state for one response
TrackResponse(tracking, resp, conflicts) ==
    LET known == resp.agent_name \in DOMAIN tracking
        before == IF known THEN tracking[resp.agent_name]
                  ELSE [total_consultations |-> 0, average_confidence |-> 0,
                        successful_consultations |-> 0, conflict_involvement |-> 0]
        total == before.total_consultations + 1
        perf == [total_consultations |-> total,
                 average_confidence |->
                    (before.average_confidence * (total - 1) + DefaultConfidence)
                        \div total,
                 successful_consultations |->
                    before.successful_consultations
                        + BoolToInt(resp.status = "success"),
                 conflict_involvement |->
                    before.conflict_involvement
                        + Cardinality({c \in 1..Len(conflicts) :
                                        InSeq(resp.agent_name,
                                              conflicts[c].agents_involved)})]
    IN  [a \in DOMAIN tracking \cup {resp.agent_name} |->
            IF a = resp.agent_name THEN perf ELSE tracking[a]]

RECURSIVE TrackAll(_, _, _)
TrackAll(tracking, agent_responses, conflicts) ==
    IF agent_responses = <<>> THEN tracking
    ELSE TrackAll(TrackResponse(tracking, Head(agent_responses), conflicts),
                  Tail(agent_responses), conflicts)

\* the analysis_results dict of analyze_agent_responses
AnalysisResults(engine, agent_responses) ==
    [overlap_analysis |-> _detect_agent_overlaps(agent_responses),
     conflict_analysis |-> _analyze_conflicts(agent_responses, engine.conflict_history),
     quality_assessment |-> _assess_code_quality(agent_responses),
     technical_decision_points |-> _identify_decision_points(agent_responses)]

\* _update_intelligence_state
_update_intelligence_state(engine, analysis_results, agent_responses) ==
    [conflict_history |->
        engine.conflict_history \o analysis_results.conflict_analysis,
     quality_metrics_history |->
        engine.quality_metrics_history \o analysis_results.quality_assessment,
     technical_decisions |->
        engine.technical_decisions \o analysis_results.technical_decision_points,
     agent_performance_tracking |->
        TrackAll(engine.agent_performance_tracking, agent_responses,
                 analysis_results.conflict_analysis)]

\* the response lists handed to the engine: lists that vary the declared
\* conflicts and the status, lists that vary the result text, and lists
\* that vary the technical decisions
ConflictChoices == {{}, {"performance"}, {"security", "cannot"}}

ResultChoices == {{}, {"refactor"}, {"refactor", "best practices"}, {"temporary"},
                  {"unit test", "microservices"}, {"security_analysis"}}

DecisionChoices ==
    LET auth_oauth == [decision |-> "Authentication", recommendation |-> "OAuth2"]
        auth_cookies == [decision |-> "Authentication",
                         recommendation |-> "Session cookies"]
        caching_oauth == [decision |-> "Caching", recommendation |-> "OAuth2"]
    IN  {<<>>, <<auth_oauth>>, <<auth_cookies>>, <<auth_oauth, auth_cookies>>,
         <<auth_oauth, auth_oauth>>, <<caching_oauth>>, <<auth_cookies, caching_oauth>>}

EngineResponses ==
    {EngineResponse(a, st, c, r, <<>>) :
        a \in EngineAgentNames, st \in {"success", "failed"},
        c \in ConflictChoices, r \in {{}, {"security_analysis"}}}
    \cup {EngineResponse(a, "success", {}, r, <<>>) :
            a \in EngineAgentNames, r \in ResultChoices}
    \cup {EngineResponse(a, "success", {}, {}, ds) :
            a \in EngineAgentNames, ds \in DecisionChoices}

InitEngine ==
    /\ call \in {[fn |-> "analyze_agent_responses", agent_responses |-> rs] :
                    rs \in SeqsUpTo(EngineResponses, MaxResponses)}
    /\ ret = <<>>
    /\ env = NewEngine
    /\ request = NoRequest
    /\ OrchestratorLoaded(NoAgentsLoaded)

\* await engine.analyze_agent_responses(agent_responses, request_context),
\* called again with the same list on the same engine; ret collects the
\* values returned
AnalyzeResponses ==
    /\ call.fn = "analyze_agent_responses"
    /\ Len(ret) < MaxAnalyses
    /\ LET analysis_results == AnalysisResults(env, call.agent_responses)
       IN  /\ env' = _update_intelligence_state(env, analysis_results,
                                                call.agent_responses)
           /\ ret' = Append(ret, analysis_results)
    /\ UNCHANGED call
    /\ UNCHANGED orchVars

NextEngine == AnalyzeResponses

SpecEngine == InitEngine /\ [][NextEngine]_vars

(* ------------------------------- claims -------------------------------- *)
SomeSuccess(rs) == \E i \in 1..Len(rs) : rs[i].status = "success"
SomeFailed(rs) == \E i \in 1..Len(rs) : rs[i].status = "failed"

\* C1: when at least one active contributor was selected, the returned
\* status is "success" exactly if some output of the executed pattern has
\* status "success".
C1_SuccessIffSomeSuccess ==
    (pc = "done" /\ Len(agents) >= 1)
        => (response.status = "success" <=> SomeSuccess(results))

\* C1 witness: a call over two or more contributors returned "success"
\* although one of its outputs failed.
C1_Witness ==
    /\ pc = "done" /\ Len(agents) >= 2
    /\ response.status = "success"
    /\ SomeSuccess(results) /\ SomeFailed(results)

\* the outputs of the concurrent batch within the returned list (the
\* hierarchical executor puts the architect's output in front of them)
BatchResults == IF phase = "specialists" THEN Tail(results) ELSE results

\* C2: in a concurrent batch every consultation resolves, a consultation
\* that succeeded has a "success" entry in the returned list and one that
\* failed or raised only a "failed" entry of its own.
C2_ParallelIsolation ==
    (pc = "done" /\ phase \in ConcurrentPhases)
        => /\ Len(BatchResults) = Len(tasks)
           /\ \A i \in 1..Len(tasks) :
                /\ tasks[i].st = "done"
                /\ (tasks[i].outcome.kind = "return"
                        /\ tasks[i].outcome.value.status = "success")
                    => BatchResults[i].status = "success"
                /\ AsResponse(tasks[i].outcome).status = "failed"
                    => BatchResults[i].status = "failed"

\* C2 witness: a finished concurrent batch in which one consultation failed
\* and a sibling succeeded and kept its "success" entry.
C2_Witness ==
    /\ pc = "done" /\ phase \in ConcurrentPhases
    /\ \E i, j \in 1..Len(tasks) :
        /\ i # j
        /\ AsResponse(tasks[i].outcome).status = "failed"
        /\ AsResponse(tasks[j].outcome).status = "success"
        /\ Len(BatchResults) = Len(tasks)
        /\ BatchResults[j].status = "success"

\* C3: the assembled list of a concurrent batch holds exactly one output per
\* contributor of the batch, and entry i is the output of the consultation of
\* the i-th contributor, whatever the order of resolution.
C3_OnePerContributorInOrder ==
    (pc = "done" /\ phase \in ConcurrentPhases)
        => /\ Len(BatchResults) = Len(batch)
           /\ \A i \in 1..Len(batch) :
                LET produced == AsResponse(tasks[i].outcome)
                IN  /\ BatchResults[i].status = produced.status
                    /\ BatchResults[i].agent_name = produced.agent_name
                    /\ BatchResults[i].errors = produced.errors
                    /\ BatchResults[i].status = "success"
                        => BatchResults[i].agent_name = batch[i]

\* C3 witness: a finished concurrent batch whose second consultation
\* resolved before its first, one of the two failed and the other succeeded.
C3_Witness ==
    /\ pc = "done" /\ phase \in ConcurrentPhases
    /\ Len(done_order) >= 2
    /\ done_order[1] = 2 /\ done_order[2] = 1
    /\ BatchResults[1].status # BatchResults[2].status

DerivedKeys(agent_name) == KeysOf(DerivedEntries(agent_name))

C5_SequentialOrdering ==
    (phase = "sequential" /\ pc = "executing")
        => /\ Cardinality({i \in 1..Len(tasks) : tasks[i].st = "running"}) <= 1
           /\ \A i \in 1..Len(tasks) :
                tasks[i].st # "pending"
                    => \A j \in 1..(i - 1) : tasks[j].st = "done"
           /\ \A k \in 1..(Len(tasks) - 1) :
                tasks[k].st = "done"
                    => (tasks[k + 1].st # "pending" \/ SeqMayStart(k + 1))

\* C5 witness: a sequential run in which contributor 1 resolved as failed
\* and the consultation of contributor 2 is in progress.
C5_Witness ==
    /\ phase = "sequential" /\ pc = "executing"
    /\ Len(tasks) >= 2
    /\ tasks[1].st = "done" /\ seq_results[1].status = "failed"
    /\ tasks[2].st = "running"

\* C8: every returned result with status "failed" carries an error message
\* and generic fallback guidance.
C8_FailedHasErrorAndFallback ==
    (pc = "done" /\ response.status = "failed")
        => /\ "error" \in response.keys
           /\ response.error # <<>>
           /\ "fallback_recommendations" \in response.keys

(* ---------------------- claims on the engine --------------------------- *)
\* C11: feeding the same list of outputs to one engine twice yields the same
\* conflict records, conflict id included.
C11_SameInputSameConflicts ==
    (call.fn = "analyze_agent_responses" /\ Len(ret) >= 2)
        => ret[1].conflict_analysis = ret[2].conflict_analysis

\* all quality metric records returned so far
ReturnedMetrics ==
    IF call.fn = "analyze_agent_responses"
    THEN {ret[k].quality_assessment[m] :
            k \in 1..Len(ret), m \in 1..5}
    ELSE {}

\* C12: every quality metric score lies in [0, 1].
C12_ScoresInUnitInterval ==
    \A metric \in ReturnedMetrics : metric.score >= 0 /\ metric.score <= 100

\* the fixed thresholds: 0.6 complexity and coverage, 0.8 security, 0.7 debt
\* and maintainability
FixedThreshold(metric_type) ==
    CASE metric_type \in {"code_complexity", "test_coverage"} -> 60
      [] metric_type = "security_score" -> 80
      [] metric_type \in {"technical_debt", "maintainability"} -> 70

\* C13: a quality metric record has status "pass" exactly if its score is
\* at least the fixed threshold of its metric, and it stores that threshold.
C13_PassIffAtLeastThreshold ==
    \A metric \in ReturnedMetrics :
        /\ metric.threshold = FixedThreshold(metric.metric_type)
        /\ metric.status = "pass" <=> metric.score >= FixedThreshold(metric.metric_type)

\* C13 witness: an analysis returned a metric that passes with its score
\* exactly on the threshold, and one below its threshold that does not pass.
C13_Witness ==
    /\ \E metric \in ReturnedMetrics :
            metric.score = metric.threshold /\ metric.status = "pass"
    /\ \E metric \in ReturnedMetrics :
            metric.score < metric.threshold /\ metric.status # "pass"

\* the contributors naming a decision, and the recommendations given for it
NamedBy(agent_responses, name) ==
    {agent_responses[i].agent_name :
        i \in {i \in 1..Len(agent_responses) :
                \E d \in 1..Len(agent_responses[i].technical_decisions) :
                    agent_responses[i].technical_decisions[d].decision = name}}

RecommendationsFor(agent_responses, name) ==
    {e.recommendation :
        e \in {DecisionEntries(agent_responses)[i] :
                i \in {i \in 1..Len(DecisionEntries(agent_responses)) :
                        DecisionEntries(agent_responses)[i].decision = name}}}

\* C15: a decision point is emitted for a decision name exactly if more than
\* one contributor names it and more than one distinct recommendation is
\* given for it; it then has one option per distinct recommendation, tagged
\* with exactly the contributors who gave it.
C15_DecisionPointIffContributorsDisagree ==
    (call.fn = "analyze_agent_responses" /\ Len(ret) >= 1)
        => \A name \in DecisionNames :
            LET points == {p \in 1..Len(ret[1].technical_decision_points) :
                            ret[1].technical_decision_points[p].title = name}
                recs == RecommendationsFor(call.agent_responses, name)
            IN  /\ points # {}
                    <=> (Cardinality(NamedBy(call.agent_responses, name)) > 1
                         /\ Cardinality(recs) > 1)
                /\ Cardinality(points) <= 1
                /\ \A p \in points :
                    {o.option : o \in ret[1].technical_decision_points[p].options}
                        = recs

\* C16: no overlap or conflict record involves a contributor whose output has
\* status "failed".
C16_RecordsOnlyOverSuccessful ==
    (call.fn = "analyze_agent_responses" /\ Len(ret) >= 1)
        => LET failed == {call.agent_responses[i].agent_name :
                            i \in {i \in 1..Len(call.agent_responses) :
                                    call.agent_responses[i].status = "failed"}}
               involved ==
                    UNION {{ret[1].overlap_analysis[o].agents[1],
                            ret[1].overlap_analysis[o].agents[2]} :
                                o \in 1..Len(ret[1].overlap_analysis)}
                    \cup UNION {{ret[1].conflict_analysis[c].agents_involved[1],
                                 ret[1].conflict_analysis[c].agents_involved[2]} :
                                    c \in 1..Len(ret[1].conflict_analysis)}
           IN  involved \cap failed = {}

(* ====================== methodology validator ========================== *)
MaxPhrases == 2

\* claimed methodology names handed to the validator
ClaimedMethodologies ==
    {"Clean Architecture", "SOLID Principles", "OWASP Top 10",
     "NIST Cybersecurity Framework", "UX Design Thinking", "REST API Design",
     "Microservices Patterns", "TDD", "DDD", "Clean Architecture and SOLID",
     "Agile Development", "Waterfall", ""}

\* the keywords of _map_methodology_string_to_type that occur (as
\* substrings) in methodology_string.lower()
MethodologyKeywordsIn(methodology_string) ==
    CASE methodology_string = "Clean Architecture" -> {"clean architecture"}
      [] methodology_string = "SOLID Principles" -> {"solid"}
      [] methodology_string = "OWASP Top 10" -> {"owasp"}
      [] methodology_string = "NIST Cybersecurity Framework" -> {"nist"}
      [] methodology_string = "UX Design Thinking" -> {"ux", "design thinking"}
      [] methodology_string = "REST API Design" -> {"rest", "api"}
      [] methodology_string = "Microservices Patterns" -> {"microservices"}
      [] methodology_string = "TDD" -> {"tdd"}
      [] methodology_string = "DDD" -> {"ddd"}
      [] methodology_string = "Clean Architecture and SOLID"
            -> {"clean architecture", "solid"}
      [] OTHER -> {}

NoMethodology == "<None>"

\* _map_methodology_string_to_type: the first matching branch
_map_methodology_string_to_type(methodology_string) ==
    LET has(kw) == kw \in MethodologyKeywordsIn(methodology_string)
    IN  IF has("clean architecture") THEN "clean_architecture"
        ELSE IF has("solid") THEN "solid_principles"
        ELSE IF has("owasp") THEN "owasp_security"
        ELSE IF has("nist") THEN "nist_cybersecurity"
        ELSE IF has("ux") \/ has("design thinking") \/ has("user experience")
            THEN "ux_design_thinking"
        ELSE IF has("rest") \/ has("api") THEN "rest_api_design"
        ELSE IF has("microservices") THEN "microservices_patterns"
        ELSE IF has("tdd") \/ has("test driven") THEN "tdd"
        ELSE IF has("ddd") \/ has("domain driven") THEN "ddd"
        ELSE NoMethodology

\* the string values of an agent response's result
Filler == "<120 characters without a rubric keyword>"

ResponsePhrases ==
    {"zzz", "avoid", "testability", "identify", "stateless", "api gateway",
     "user research", "injection", "single responsibility", "tdd", Filler}

\* len(phrase)
PhraseLen(phrase) ==
    CASE phrase = "zzz" -> 3
      [] phrase = "avoid" -> 5
      [] phrase = "testability" -> 11
      [] phrase = "identify" -> 8
      [] phrase = "stateless" -> 9
      [] phrase = "api gateway" -> 11
      [] phrase = "user research" -> 13
      [] phrase = "injection" -> 9
      [] phrase = "single responsibility" -> 21
      [] phrase = "tdd" -> 3
      [] phrase = Filler -> 120

\* the entries of self.methodology_frameworks a phrase matches, each as
\* <<methodology, list of the framework, entry>>, under the test the
\* validator of the methodology applies to the list
RubricHits(phrase) ==
    CASE phrase = "avoid" ->
            {<<"clean", "anti_patterns", a>> :
                a \in {"business_logic_in_ui", "database_logic_in_business",
                       "tight_framework_coupling", "circular_dependencies"}}
            \cup {<<"solid", "anti_patterns", a>> :
                    a \in {"god class", "swiss army knife", "multiple responsibilities",
                           "modification of existing code", "breaking changes",
                           "strengthened preconditions", "violated contracts",
                           "fat interface", "unused methods", "interface pollution",
                           "concrete dependencies", "tight coupling",
                           "direct instantiation"}}
      [] phrase = "testability" ->
            {<<"clean", "core_principles", "testability">>,
             <<"ux", "design_thinking_process", "test">>}
      [] phrase = "identify" -> {<<"nist", "framework_functions", "identify">>}
      [] phrase = "stateless" -> {<<"rest", "rest_principles", "stateless">>}
      [] phrase = "api gateway" -> {<<"micro", "core_patterns", "api_gateway">>}
      [] phrase = "user research" ->
            {<<"ux", "usability_heuristics", "user_control_freedom">>,
             <<"ux", "user_centered_design", "user_research">>}
      [] phrase = "injection" -> {<<"owasp", "top_10_2021", "A03_injection">>}
      [] phrase = "single responsibility" ->
            {<<"solid", "principles", "single_responsibility">>}
      [] phrase = "tdd" -> {<<"generic", "methodology_name", "tdd">>}
      [] OTHER -> {}

\* the framework entries matched by _extract_full_response_text(...).lower()
TextHits(text) == UNION {RubricHits(phrase) : phrase \in text}

\* the number of entries of one list of a framework the text matches
HitCount(text, methodology, list) ==
    Cardinality({h \in TextHits(text) : h[1] = methodology /\ h[2] = list})

\* len(" ".join(text_parts))
RECURSIVE TextLen(_)
TextLen(text) ==
    IF text = {} THEN 0
    ELSE LET phrase == CHOOSE x \in text : TRUE
         IN  PhraseLen(phrase) + TextLen(text \ {phrase})
             + (IF text = {phrase} THEN 0 ELSE 1)

ValidationIssue(severity, issue_type) ==
    [severity |-> severity, issue_type |-> issue_type]

\* what a validator adds to the result: the issues and the number of strengths
Findings(issues, strengths) == [issues |-> issues, strengths |-> strengths]


\* _validate_clean_architecture
_validate_clean_architecture(text) ==
    LET principles_mentioned == HitCount(text, "clean", "core_principles")
        concepts_mentioned == HitCount(text, "clean", "required_concepts")
    IN  Findings(
            (IF principles_mentioned = 0
                THEN <<ValidationIssue("error", "missing_core_principles")>>
             ELSE IF principles_mentioned < 3
                THEN <<ValidationIssue("warning", "insufficient_principle_coverage")>>
             ELSE <<>>)
            \o (IF concepts_mentioned < 2
                    THEN <<ValidationIssue("warning", "missing_key_concepts")>>
                ELSE <<>>),
            principles_mentioned + concepts_mentioned
                + BoolToInt(HitCount(text, "clean", "layer_structure") > 0))

\* _validate_solid_principles
_validate_solid_principles(text) ==
    LET principles_covered == HitCount(text, "solid", "principles")
    IN  Findings(
            IF principles_covered = 0
                THEN <<ValidationIssue("critical", "no_solid_principles")>>
            ELSE IF principles_covered < 3
                THEN <<ValidationIssue("warning", "incomplete_solid_coverage")>>
            ELSE <<>>,
            principles_covered + HitCount(text, "solid", "anti_patterns")
                + HitCount(text, "solid", "implementation_patterns"))

\* the entries of a list nested under an entry of `parents` (the mitigations
\* of a vulnerability, the categories of a function) that the text matches
\* and whose parent entry it matches too
NestedHits(text, methodology, parents, nested) ==
    {h \in TextHits(text) :
        /\ h[1] = methodology /\ h[2] = nested
        /\ <<methodology, parents, h[3][1]>> \in TextHits(text)}

\* _validate_owasp_security
_validate_owasp_security(text) ==
    LET top10_mentioned == HitCount(text, "owasp", "top_10_2021")
    IN  Findings(
            IF top10_mentioned = 0
                THEN <<ValidationIssue("error", "no_owasp_coverage")>>
            ELSE <<>>,
            top10_mentioned
                + Cardinality(NestedHits(text, "owasp", "top_10_2021", "mitigations"))
                + HitCount(text, "owasp", "security_principles"))

\* _validate_nist_cybersecurity
_validate_nist_cybersecurity(text) ==
    LET functions_mentioned == HitCount(text, "nist", "framework_functions")
        with_categories ==
            {h[3][1] : h \in NestedHits(text, "nist", "framework_functions", "categories")}
    IN  Findings(
            IF functions_mentioned = 0
                THEN <<ValidationIssue("warning", "no_nist_functions")>>
            ELSE <<>>,
            functions_mentioned + Cardinality(with_categories))

\* _validate_ux_design_thinking
_validate_ux_design_thinking(text) ==
    LET ucd_elements == HitCount(text, "ux", "user_centered_design")
    IN  Findings(
            IF ucd_elements = 0
                THEN <<ValidationIssue("warning", "missing_user_centered_design")>>
            ELSE <<>>,
            HitCount(text, "ux", "design_thinking_process")
                + HitCount(text, "ux", "don_norman_principles")
                + BoolToInt(HitCount(text, "ux", "usability_heuristics") > 3)
                + ucd_elements)

\* _validate_rest_api_design
_validate_rest_api_design(text) ==
    LET principles_mentioned == HitCount(text, "rest", "rest_principles")
    IN  Findings(
            IF principles_mentioned = 0
                THEN <<ValidationIssue("warning", "missing_rest_principles")>>
            ELSE <<>>,
            principles_mentioned
                + BoolToInt(HitCount(text, "rest", "http_methods") > 0)
                + BoolToInt(HitCount(text, "rest", "status_codes") > 0)
                + HitCount(text, "rest", "best_practices"))

\* _validate_microservices_patterns
_validate_microservices_patterns(text) ==
    LET patterns_mentioned == HitCount(text, "micro", "core_patterns")
    IN  Findings(
            IF patterns_mentioned = 0
                THEN <<ValidationIssue("warning", "missing_core_patterns")>>
            ELSE <<>>,
            patterns_mentioned
                + BoolToInt(HitCount(text, "micro", "decomposition_patterns") > 0)
                + BoolToInt(HitCount(text, "micro", "data_management") > 0)
                + BoolToInt(HitCount(text, "micro", "observability") > 0))

\* _validate_generic_methodology; methodology_name is the enum value with
\* its underscores replaced by spaces
_validate_generic_methodology(text, methodology_type) ==
    Findings(
        (IF TextLen(text) < 100
            THEN <<ValidationIssue("warning", "insufficient_detail")>>
         ELSE <<>>)
        \o (IF <<"generic", "methodology_name", methodology_type>> \notin TextHits(text)
                THEN <<ValidationIssue("warning", "methodology_not_referenced")>>
            ELSE <<>>),
        0)

\* the deduction of _calculate_validation_score for one issue, in hundredths
Deduction(issue) ==
    CASE issue.severity = "critical" -> 30
      [] issue.severity = "error" -> 20
      [] issue.severity = "warning" -> 10
      [] issue.severity = "info" -> 5

\* _calculate_validation_score, to the nearest hundredth
_calculate_validation_score(findings) ==
    LET base_score ==
            100 - SumSeq([i \in 1..Len(findings.issues) |-> Deduction(findings.issues[i])])
        strength_bonus == Min2(20, findings.strengths * 5)
    IN  Max2(0, Min2(100, base_score + strength_bonus))

\* The score is a binary float: the sign of its difference from the nearest
\* hundredth, for the issue lists the validators produce (1.0 - 0.3 + 0.2 is
\* 0.8999999999999999, 1.0 - 0.2 - 0.1 is 0.7000000000000001)
ScoreRounding(findings) ==
    LET severities == [i \in 1..Len(findings.issues) |-> findings.issues[i].severity]
        strength_bonus == Min2(20, findings.strengths * 5)
    IN  CASE severities = <<"critical">> /\ strength_bonus \in {10, 20} -> -1
          [] severities = <<"error">> /\ strength_bonus \in {5, 15} -> 1
          [] severities = <<"warning">> /\ strength_bonus = 5 -> 1
          [] severities = <<"error", "warning">> /\ strength_bonus \in {0, 5, 15, 20} -> 1
          [] severities = <<"warning", "warning">> /\ strength_bonus \in {5, 15} -> 1
          [] OTHER -> 0

\* validation_score >= a threshold given in hundredths
ScoreAtLeast(validation_score, rounding, threshold) ==
    \/ validation_score > threshold
    \/ validation_score = threshold /\ rounding >= 0

\* _determine_compliance_level
_determine_compliance_level(validation_score, rounding) ==
    IF ScoreAtLeast(validation_score, rounding, 90) THEN "excellent"
    ELSE IF ScoreAtLeast(validation_score, rounding, 75) THEN "good"
    ELSE IF ScoreAtLeast(validation_score, rounding, 60) THEN "fair"
    ELSE "poor"

\* the dispatch of validate_agent_methodology on the methodology type
MethodologyFindings(text, methodology_type) ==
    CASE methodology_type = "clean_architecture" -> _validate_clean_architecture(text)
      [] methodology_type = "solid_principles" -> _validate_solid_principles(text)
      [] methodology_type = "owasp_security" -> _validate_owasp_security(text)
      [] methodology_type = "nist_cybersecurity" -> _validate_nist_cybersecurity(text)
      [] methodology_type = "ux_design_thinking" -> _validate_ux_design_thinking(text)
      [] methodology_type = "rest_api_design" -> _validate_rest_api_design(text)
      [] methodology_type = "microservices_patterns"
            -> _validate_microservices_patterns(text)
      [] OTHER -> _validate_generic_methodology(text, methodology_type)

MethodologyValidationResult(agent_name, methodology_claimed, score, rounding, compliance, findings) ==
    [agent_name |-> agent_name, methodology_claimed |-> methodology_claimed,
     validation_score |-> score, score_rounding |-> rounding,
     overall_compliance |-> compliance,
     issues |-> findings.issues, strengths |-> findings.strengths]


UnknownMethodologyFindings ==
    Findings(<<ValidationIssue("warning", "unknown_methodology")>>, 0)

\* a slip in the branch for an unmapped name: the result is scored from its
\* issues like every other result
UnknownMethodologyResult_Scored(agent_name, claimed_methodology) ==
    LET score == _calculate_validation_score(UnknownMethodologyFindings)
    IN  MethodologyValidationResult(agent_name, claimed_methodology, score,
            ScoreRounding(UnknownMethodologyFindings),
            _determine_compliance_level(score, ScoreRounding(UnknownMethodologyFindings)),
            UnknownMethodologyFindings)

\* validate_agent_methodology, the branch `if not methodology_type`
UnknownMethodologyResult(agent_name, claimed_methodology) ==
    MethodologyValidationResult(agent_name, claimed_methodology, 50, 0, "fair",
                                UnknownMethodologyFindings)

\* DevelopmentMethodologyValidator.__init__
NewValidator == [validation_history |-> <<>>, agent_methodology_tracking |-> <<>>]

\* _update_agent_tracking (the counters per issue and per strength are left out)
_update_agent_tracking(tracking, agent_name, result) ==
    LET before == IF agent_name \in DOMAIN tracking THEN tracking[agent_name]
                  ELSE [total_validations |-> 0, average_score |-> 0,
                        methodology_consistency |-> TRUE,
                        claimed_methodologies |-> {}]
        total == before.total_validations + 1
        claimed == before.claimed_methodologies \cup {result.methodology_claimed}
        after == [total_validations |-> total,
                  average_score |->
                    (before.average_score * (total - 1) + result.validation_score)
                        \div total,
                  methodology_consistency |->
                    before.methodology_consistency /\ Cardinality(claimed) <= 1,
                  claimed_methodologies |-> claimed]
    IN  [a \in DOMAIN tracking \cup {agent_name} |->
            IF a = agent_name THEN after ELSE tracking[a]]

\* validate_agent_methodology: the result, and the validator afterwards
validate_agent_methodology(validator, text, claimed_methodology, agent_name) ==
    LET methodology_type == _map_methodology_string_to_type(claimed_methodology)
        findings == MethodologyFindings(text, methodology_type)
        score == _calculate_validation_score(findings)
        rounding == ScoreRounding(findings)
        result == MethodologyValidationResult(agent_name, claimed_methodology, score,
                        rounding, _determine_compliance_level(score, rounding), findings)
    IN  IF methodology_type = NoMethodology
        THEN [result |-> UnknownMethodologyResult(agent_name, claimed_methodology),
              validator |-> validator]
        ELSE [result |-> result,
              validator |->
                [validation_history |-> Append(validator.validation_history, result),
                 agent_methodology_tracking |->
                    _update_agent_tracking(validator.agent_methodology_tracking,
                                           agent_name, result)]]

InitValidate ==
    /\ call \in [fn : {"validate_agent_methodology"},
                 text : SubsetsUpTo(ResponsePhrases, MaxPhrases),
                 claimed_methodology : ClaimedMethodologies,
                 agent_name : {"senior-architect"}]
    /\ ret = Pending
    /\ env = NewValidator
    /\ request = NoRequest
    /\ OrchestratorLoaded(NoAgentsLoaded)

\* await validator.validate_agent_methodology(agent_response, claimed, name)
Validate ==
    /\ call.fn = "validate_agent_methodology"
    /\ ret = Pending
    /\ LET done == validate_agent_methodology(env, call.text,
                        call.claimed_methodology, call.agent_name)
       IN  /\ ret' = Returned(done.result)
           /\ env' = done.validator
    /\ UNCHANGED call
    /\ UNCHANGED orchVars

NextValidate == Validate

SpecValidate == InitValidate /\ [][NextValidate]_vars

\* the framework a methodology type is validated against
RubricOf(methodology_type) ==
    CASE methodology_type = "clean_architecture" -> "clean"
      [] methodology_type = "solid_principles" -> "solid"
      [] methodology_type = "owasp_security" -> "owasp"
      [] methodology_type = "nist_cybersecurity" -> "nist"
      [] methodology_type = "ux_design_thinking" -> "ux"
      [] methodology_type = "rest_api_design" -> "rest"
      [] methodology_type = "microservices_patterns" -> "micro"
      [] OTHER -> "generic"

ValidateReturned == call.fn = "validate_agent_methodology" /\ ret # Pending

\* C14: for a known methodology, a response with zero rubric keywords gets
\* a validation score of at most 0.5, compliance "poor" or "fair", and at
\* least one issue.
C14_NoKeywordsScoresLow ==
    (/\ ValidateReturned
     /\ _map_methodology_string_to_type(call.claimed_methodology) # NoMethodology
     /\ {h \in TextHits(call.text) :
            h[1] = RubricOf(_map_methodology_string_to_type(call.claimed_methodology))}
        = {})
        => /\ ret.kind = "return"
           /\ \/ ret.value.validation_score < 50
              \/ ret.value.validation_score = 50 /\ ret.value.score_rounding <= 0
           /\ ret.value.overall_compliance \in {"poor", "fair"}
           /\ Len(ret.value.issues) >= 1

\* C18: validating a response whose claimed methodology maps to no
\* methodology returns, without raising, score 0.5, compliance "fair" and
\* exactly one issue, of severity warning.
C18_UnknownMethodologyIsNeutral ==
    (/\ ValidateReturned
     /\ _map_methodology_string_to_type(call.claimed_methodology) = NoMethodology)
        => /\ ret.kind = "return"
           /\ ret.value.validation_score = 50 /\ ret.value.score_rounding = 0
           /\ ret.value.overall_compliance = "fair"
           /\ Len(ret.value.issues) = 1
           /\ ret.value.issues[1].severity = "warning"

\* C18 witness: a validation of a response claiming "Waterfall", a name of
\* no methodology, has returned.
C18_Witness ==
    /\ ValidateReturned
    /\ call.claimed_methodology = "Waterfall"
    /\ ret.kind = "return"
    /\ ret.value.issues = <<ValidationIssue("warning", "unknown_methodology")>>

(* ================== _execute_consensus_decision (executor) ============== *)
\* _consult_agent is a placeholder for the execution of an agent; here the
\* executor runs over consultations whose outcome is given per agent, so that
\* responses with self-declared conflicts occur
MaxConsensusAgents == 3

ConsensusAgentNames == {"senior-architect", "security-consultant", "ux-strategist"}

\* what the consultation of an agent may resolve to: a success with or
\* without declared conflicts, a failed response, an exception
ConsultationOutcomes(agent_name) ==
    {Returned(SuccessResponse(agent_name)),
     Returned([SuccessResponse(agent_name) EXCEPT !.potential_conflicts = {"performance"}]),
     Returned(FailedResponse(<<"Agent '", agent_name, "' not available">>)),
     Raised(<<"timeout">>)}

\* lists of pairwise distinct agents of length at most n
RECURSIVE DistinctListsUpTo(_, _)
DistinctListsUpTo(S, n) ==
    IF n = 0 THEN {<<>>}
    ELSE LET shorter == DistinctListsUpTo(S, n - 1)
         IN  shorter \cup UNION {{Append(l, a) : a \in {x \in S : ~InSeq(x, l)}} :
                                    l \in shorter}

\* _execute_parallel_analysis(request, agents): one consultation per entry of
\* `agents`, the gathered outcomes in that order, exceptions turned into
\* failed responses
_execute_parallel_analysis(agent_list, consult) ==
    [consultations |-> agent_list,
     responses |-> [i \in 1..Len(agent_list) |-> AsResponse(consult[agent_list[i]])]]

\* _execute_consensus_decision(request, agents): the parallel round, the
\* conflict scan and, on conflicts, one round of annotation; nothing after
\* the parallel round consults an agent
_execute_consensus_decision(agent_list, consult) ==
    LET round == _execute_parallel_analysis(agent_list, consult)
    IN  [consultations |-> round.consultations,
         value |-> IF ConflictsDetected(round.responses)
                       THEN ConsensusAnnotated(round.responses)
                   ELSE round.responses]

InitConsensus ==
    /\ call \in {[fn |-> "_execute_consensus_decision", agents |-> l, consult |-> c] :
                    l \in DistinctListsUpTo(ConsensusAgentNames, MaxConsensusAgents),
                    c \in [ConsensusAgentNames -> UNION {ConsultationOutcomes(a) : a \in ConsensusAgentNames}]}
    /\ \A a \in ConsensusAgentNames : call.consult[a] \in ConsultationOutcomes(a)
    /\ \A a \in ConsensusAgentNames :
        ~InSeq(a, call.agents) => call.consult[a] = Raised(<<"timeout">>)
    /\ ret = Pending
    /\ env = NoEnv
    /\ request = NoRequest
    /\ OrchestratorLoaded(NoAgentsLoaded)

\* await self._execute_consensus_decision(request, agents)
ExecuteConsensus ==
    /\ call.fn = "_execute_consensus_decision"
    /\ ret = Pending
    /\ ret' = Returned(_execute_consensus_decision(call.agents, call.consult))
    /\ UNCHANGED <<call, env>>
    /\ UNCHANGED orchVars

NextConsensus == ExecuteConsensus

SpecConsensus == InitConsensus /\ [][NextConsensus]_vars

\* the responses the parallel round gathered, read off the outcomes
GatheredResponses ==
    [i \in 1..Len(call.agents) |-> AsResponse(call.consult[call.agents[i]])]

\* the conflict scan finds a conflict: two responses both declare conflicts
ScanFindsConflict ==
    \E i, j \in 1..Len(call.agents) :
        /\ i < j
        /\ GatheredResponses[i].potential_conflicts # {}
        /\ GatheredResponses[j].potential_conflicts # {}

ConsensusReturned == call.fn = "_execute_consensus_decision" /\ ret # Pending

\* C21: Consensus execution consults every selected contributor exactly once,
\* the returned outputs carry the flag consensus_attempted exactly when the
\* conflict scan found a conflict, and without a conflict the outputs are the
\* gathered outputs, unmodified.
C21_ConsensusSingleRound ==
    ConsensusReturned
        => /\ ret.value.consultations = call.agents
           /\ Len(ret.value.value) = Len(call.agents)
           /\ \A i \in 1..Len(call.agents) :
                ("consensus_attempted" \in ret.value.value[i].potential_conflicts)
                    <=> ScanFindsConflict
           /\ ~ScanFindsConflict => ret.value.value = GatheredResponses

C21_Witness ==
    /\ ConsensusReturned
    /\ Len(call.agents) = 3
    /\ ScanFindsConflict
    /\ \E i \in 1..3 : GatheredResponses[i].potential_conflicts = {}
    /\ \A i \in 1..3 : "consensus_attempted" \in ret.value.value[i].potential_conflicts

(* ============== a sequence of validations on one validator ============== *)
\* calls of validate_agent_methodology made on one validator instance
MaxValidations == 3

TrackedAgentNames == {"senior-architect", "security-consultant"}

\* two names that map to a methodology type and one that does not
TrackedMethodologies == {"Clean Architecture", "SOLID Principles", "Agile Development"}

TrackedTexts == {{}, {"dependency inversion"}}

\* `call` is the log of the calls made so far, `ret` the last return value
InitTracking ==
    /\ call = [fn |-> "validate_agent_methodology*", log |-> <<>>]
    /\ ret = Pending
    /\ env = NewValidator
    /\ request = NoRequest
    /\ OrchestratorLoaded(NoAgentsLoaded)

\* one more await validator.validate_agent_methodology(...) on the instance
ValidateAgain ==
    /\ call.fn = "validate_agent_methodology*"
    /\ Len(call.log) < MaxValidations
    /\ \E agent_name \in TrackedAgentNames, claimed \in TrackedMethodologies,
          text \in TrackedTexts :
        LET done == validate_agent_methodology(env, text, claimed, agent_name)
        IN  /\ ret' = Returned(done.result)
            /\ env' = done.validator
            /\ call' = [call EXCEPT !.log = Append(@, [agent_name |-> agent_name,
                                                        claimed_methodology |-> claimed])]
    /\ UNCHANGED orchVars

NextTracking == ValidateAgain

SpecTracking == InitTracking /\ [][NextTracking]_vars

\* total_validations of an agent, 0 before its tracking entry exists
ValidationCount(validator, agent_name) ==
    IF agent_name \in DOMAIN validator.agent_methodology_tracking
        THEN validator.agent_methodology_tracking[agent_name].total_validations
    ELSE 0

\* C23: every validation call updates the running statistics: after a call
\* for a contributor, whatever the claimed methodology, its validation count
\* is one higher, its claimed-methodology set holds the claimed name and the
\* result is the new last entry of the validation history.
C23_EveryCallIsTracked ==
    [][LET made == call'.log[Len(call'.log)]
       IN  /\ ValidationCount(env', made.agent_name)
                = ValidationCount(env, made.agent_name) + 1
           /\ made.agent_name \in DOMAIN env'.agent_methodology_tracking
           /\ made.claimed_methodology \in
                env'.agent_methodology_tracking[made.agent_name].claimed_methodologies
           /\ env'.validation_history = Append(env.validation_history, ret'.value)]_vars

\* the claimed methodology names observed so far for an agent
ObservedMethodologies(agent_name) ==
    {call.log[i].claimed_methodology :
        i \in {j \in 1..Len(call.log) : call.log[j].agent_name = agent_name}}

\* the consistency flag of an agent has turned false
FlagIsFalse(validator, agent_name) ==
    /\ agent_name \in DOMAIN validator.agent_methodology_tracking
    /\ ~validator.agent_methodology_tracking[agent_name].methodology_consistency

\* C24: after any sequence of validation calls, the consistency flag of a
\* contributor is false exactly when more than one distinct claimed
\* methodology name has been observed for it, and a flag that is false stays
\* false.
C24_FlagFalseIffSeveralObserved ==
    [][\A agent_name \in TrackedAgentNames :
        /\ (FlagIsFalse(env, agent_name)
                <=> Cardinality(ObservedMethodologies(agent_name)) > 1)'
        /\ FlagIsFalse(env, agent_name) => FlagIsFalse(env', agent_name)]_vars

(* ================ _validate_development_quality (pure) ================== *)
\* most words of request.success_criteria
MaxCriteriaWords == 2

\* words of success_criteria and of the response text; none of them occurs in
\* a key or a fixed value of the response dict
CriteriaWords == {"secure", "fast", "scalable"}
ResponseTextWords == {"secure", "fastapi"}

\* the criteria keywords that occur (as substrings) in a word of the text
CriteriaKeywordsIn(w) ==
    CASE w = "secure"  -> {"secure"}
      [] w = "fastapi" -> {"fast"}
      [] OTHER         -> {}

\* the sections of a response _validate_development_quality looks at;
\* implementation_approach is an entry of technical_guidance
ResponseSections == {"technical_guidance", "implementation_approach",
                     "risk_assessment", "next_steps"}

\* responses as dicts: their status, the sections whose value is truthy and
\* the words of str(response)
QualityResponses ==
    {r \in [status : {"success", "failed"},
            truthy : SUBSET ResponseSections,
            text : SUBSET ResponseTextWords] :
        "implementation_approach" \in r.truthy => "technical_guidance" \in r.truthy}

\* _check_success_criteria(response, criteria); criteria.split() is `criteria`
_check_success_criteria(resp, criteria) ==
    LET matching == {i \in 1..Len(criteria) :
                        \E w \in resp.text : criteria[i] \in CriteriaKeywordsIn(w)}
    IN  IF criteria = <<>> THEN TRUE
        ELSE 2 * Cardinality(matching) >= Len(criteria)

\* the keys of quality_checks, in the order of the dict
QualityCheckNames ==
    <<"has_technical_guidance", "has_implementation_approach",
      "has_risk_assessment", "has_next_steps", "meets_success_criteria">>

\* quality_checks of _validate_development_quality
quality_checks(resp, criteria) ==
    [has_technical_guidance |-> "technical_guidance" \in resp.truthy,
     has_implementation_approach |-> "implementation_approach" \in resp.truthy,
     has_risk_assessment |-> "risk_assessment" \in resp.truthy,
     has_next_steps |-> "next_steps" \in resp.truthy,
     meets_success_criteria |-> _check_success_criteria(resp, criteria)]

\* quality_score = sum(quality_checks.values()) / len(quality_checks), in
\* hundredths
quality_score(checks) ==
    (100 * Cardinality({c \in DOMAIN checks : checks[c]})) \div Cardinality(DOMAIN checks)

\* a slip in the pass mark: strictly more than 0.8
validation_passed_strictly_above(score) == score > 80

\* 'validation_passed': quality_score >= 0.8
validation_passed(score) == score >= 80

\* the returned response: the response with quality_validation and, for a
\* score below 0.8, quality_warnings, one per failing check in dict order
ValidatedQuality(resp, criteria) ==
    LET checks == quality_checks(resp, criteria)
        score == quality_score(checks)
    IN  [status |-> resp.status,
         truthy |-> resp.truthy,
         text |-> resp.text,
         quality_validation |->
            [quality_checks |-> checks,
             quality_score |-> score,
             validation_passed |-> validation_passed(score)],
         has_quality_warnings |-> score < 80,
         quality_warnings |->
            IF score < 80
                THEN SelectSeq(QualityCheckNames, LAMBDA c : ~checks[c])
            ELSE <<>>]

InitQuality ==
    /\ call \in [fn : {"_validate_development_quality"},
                 response : QualityResponses,
                 success_criteria : SeqsUpTo(CriteriaWords, MaxCriteriaWords)]
    /\ ret = Pending
    /\ env = NoEnv
    /\ request = NoRequest
    /\ OrchestratorLoaded(NoAgentsLoaded)

\* self._validate_development_quality(response, request)
ValidateQuality ==
    /\ call.fn = "_validate_development_quality"
    /\ ret = Pending
    /\ ret' = Returned(ValidatedQuality(call.response, call.success_criteria))
    /\ UNCHANGED <<call, env>>
    /\ UNCHANGED orchVars

NextQuality == ValidateQuality

SpecQuality == InitQuality /\ [][NextQuality]_vars

QualityReturned == call.fn = "_validate_development_quality" /\ ret # Pending

\* the checks of the returned validation that fail
FailingChecks ==
    {c \in DOMAIN ret.value.quality_validation.quality_checks :
        ~ret.value.quality_validation.quality_checks[c]}

\* C25: structural validation passes exactly when at least 4 of the 5 checks
\* pass; a failed validation still returns the response, its status
\* unchanged, with exactly one warning per failing check, and a passing
\* validation attaches no warnings.
C25_PassIffFourOfFive ==
    QualityReturned
        => /\ Cardinality(DOMAIN ret.value.quality_validation.quality_checks) = 5
           /\ ret.value.quality_validation.validation_passed
                <=> Cardinality(FailingChecks) <= 1
           /\ ret.value.status = call.response.status
           /\ ~ret.value.quality_validation.validation_passed
                => /\ ret.value.has_quality_warnings
                   /\ Len(ret.value.quality_warnings) = Cardinality(FailingChecks)
                   /\ {ret.value.quality_warnings[i] :
                            i \in 1..Len(ret.value.quality_warnings)} = FailingChecks
           /\ ret.value.quality_validation.validation_passed
                => ~ret.value.has_quality_warnings /\ ret.value.quality_warnings = <<>>

C25_Witness ==
    /\ QualityReturned
    /\ Cardinality(FailingChecks) = 1
    /\ ~ret.value.quality_validation.quality_checks["meets_success_criteria"]
    /\ ret.value.quality_validation.validation_passed
    /\ ret.value.status = "failed"

(* ================== _detect_response_conflict (pure) ==================== *)
\* tokens of the potential_conflicts maps of a pair of responses
DetectWords == ConflictWords \cup {"architecture"}

DetectMaps == SubsetsUpTo(DetectWords, MaxConflictWords)

InitDetect ==
    /\ call \in [fn : {"_detect_response_conflict"},
                 response1 : {EngineResponse(a, "success", c, {}, <<>>) :
                                a \in EngineAgentNames, c \in DetectMaps},
                 response2 : {EngineResponse(a, "success", c, {}, <<>>) :
                                a \in EngineAgentNames, c \in DetectMaps}]
    /\ ret = Pending
    /\ env = NewEngine
    /\ request = NoRequest
    /\ OrchestratorLoaded(NoAgentsLoaded)

\* await self._detect_response_conflict(response1, response2, context)
DetectConflict ==
    /\ call.fn = "_detect_response_conflict"
    /\ ret = Pending
    /\ ret' = Returned(_detect_response_conflict(call.response1, call.response2,
                                                 env.conflict_history))
    /\ UNCHANGED <<call, env>>
    /\ UNCHANGED orchVars

NextDetect == DetectConflict

SpecDetect == InitDetect /\ [][NextDetect]_vars

DetectReturned == call.fn = "_detect_response_conflict" /\ ret # Pending

\* the merged conflict text of the pair and its additive severity score:
\* +2 high-impact keywords, +2 blocking language, +1 performance/scalability
PairText == call.response1.potential_conflicts \cup call.response2.potential_conflicts

PairScore ==
    (IF \E w \in PairText : KeywordsIn(w) \cap {"security", "architecture", "database"} # {}
        THEN 2 ELSE 0)
    + (IF \E w \in PairText :
            KeywordsIn(w) \cap {"cannot", "incompatible", "conflicts", "contradicts"} # {}
        THEN 2 ELSE 0)
    + (IF \E w \in PairText :
            KeywordsIn(w) \cap {"performance", "scalability", "bottleneck"} # {}
        THEN 1 ELSE 0)

\* C26: a pair of outputs yields a ConflictRecord exactly when at least one of
\* them declares a non-empty conflict map and the additive severity score is
\* at least 1; a record never has severity low: it is critical for a score of
\* 4 or more, high for 2 or more, moderate for 1.
C26_RecordIffDeclaredAndScored ==
    DetectReturned
        => /\ (ret.value # NoConflict)
                <=> (/\ \/ call.response1.potential_conflicts # {}
                        \/ call.response2.potential_conflicts # {}
                     /\ PairScore >= 1)
           /\ ret.value # NoConflict
                => /\ ret.value.severity # "low"
                   /\ ret.value.severity =
                        (IF PairScore >= 4 THEN "critical"
                         ELSE IF PairScore >= 2 THEN "high" ELSE "moderate")

C26_Witness ==
    /\ DetectReturned
    /\ call.response1.potential_conflicts = {}
    /\ call.response2.potential_conflicts = {"performance"}
    /\ ret.value # NoConflict
    /\ ret.value.severity = "moderate"

\* C27: for every reported ConflictRecord the stakeholder-escalation flag is
\* true exactly when its severity is critical, or its severity is high and
\* its type is architecture_disagreement or security_vs_performance.
C27_EscalationFlag ==
    (DetectReturned /\ ret.value # NoConflict)
        => (ret.value.stakeholder_input_required
            <=> \/ ret.value.severity = "critical"
                \/ /\ ret.value.severity = "high"
                   /\ ret.value.conflict_type \in
                        {"architecture_disagreement", "security_vs_performance"})

C27_Witness ==
    /\ DetectReturned
    /\ ret.value # NoConflict
    /\ ret.value.severity = "high"
    /\ ret.value.conflict_type = "architecture_disagreement"
    /\ ret.value.stakeholder_input_required

(* ================ _determine_resolution_strategy (pure) ================= *)
\* words of the overlap areas of a pair
OverlapAreaWords == {"security", "architecture", "performance"}

ResolutionAgentNames == AgentNames \cup {"unknown-agent"}

\* agent_hierarchy.get(agent, 1)
agent_hierarchy(agent) ==
    CASE agent = "senior-architect"    -> 5
      [] agent = "security-consultant" -> 4
      [] agent = "ux-strategist"       -> 3
      [] agent = "backend-builder"     -> 2
      [] agent = "frontend-builder"    -> 2
      [] OTHER                         -> 1

\* the returned strategy strings: f"defer_to_{agent}" and the three fixed ones
DeferTo(agent) == [strategy |-> "defer_to", agent |-> agent]
Strategy(name) == [strategy |-> name, agent |-> ""]

\* _determine_resolution_strategy(agent1, agent2, overlap_areas)
_determine_resolution_strategy(agent1, agent2, overlap_areas) ==
    LET priority1 == agent_hierarchy(agent1)
        priority2 == agent_hierarchy(agent2)
    IN  IF priority1 > priority2 THEN DeferTo(agent1)
        ELSE IF priority2 > priority1 THEN DeferTo(agent2)
        ELSE IF InText("security", overlap_areas) THEN Strategy("security_priority")
        ELSE IF InText("architecture", overlap_areas)
            THEN Strategy("architecture_priority")
        ELSE Strategy("consensus_building")

InitResolve ==
    /\ call \in [fn : {"_determine_resolution_strategy"},
                 agent1 : ResolutionAgentNames,
                 agent2 : ResolutionAgentNames,
                 overlap_areas : SUBSET OverlapAreaWords]
    /\ ret = Pending
    /\ env = NoEnv
    /\ request = NoRequest
    /\ OrchestratorLoaded(NoAgentsLoaded)

\* self._determine_resolution_strategy(agent1_name, agent2_name, overlap_areas)
DetermineStrategy ==
    /\ call.fn = "_determine_resolution_strategy"
    /\ ret = Pending
    /\ ret' = Returned(_determine_resolution_strategy(call.agent1, call.agent2,
                                                      call.overlap_areas))
    /\ UNCHANGED <<call, env>>
    /\ UNCHANGED orchVars

NextResolve == DetermineStrategy

SpecResolve == InitResolve /\ [][NextResolve]_vars

\* the priority table security > architecture > ux > backend/frontend > unranked
TableRank(agent) ==
    CASE agent = "security-consultant" -> 5
      [] agent = "senior-architect"    -> 4
      [] agent = "ux-strategist"       -> 3
      [] agent = "backend-builder"     -> 2
      [] agent = "frontend-builder"    -> 2
      [] OTHER                         -> 1

\* C28: the resolution strategy follows the priority table security >
\* architecture > ux > backend/frontend > unranked: with different ranks it
\* defers to the higher-ranked contributor, and only with equal ranks the
\* domain tie-break decides (security_priority, else architecture_priority,
\* else consensus_building).
C28_StrategyFollowsPriorityTable ==
    (call.fn = "_determine_resolution_strategy" /\ ret # Pending)
        => ret.value =
            (IF TableRank(call.agent1) > TableRank(call.agent2)
                THEN DeferTo(call.agent1)
             ELSE IF TableRank(call.agent2) > TableRank(call.agent1)
                THEN DeferTo(call.agent2)
             ELSE IF \E w \in call.overlap_areas : "security" \in KeywordsIn(w)
                THEN Strategy("security_priority")
             ELSE IF \E w \in call.overlap_areas : "architecture" \in KeywordsIn(w)
                THEN Strategy("architecture_priority")
             ELSE Strategy("consensus_building"))

(* ============== a sequence of analyses on one engine ==================== *)
\* calls of analyze_agent_responses made on one engine instance
MaxIdCalls == 2
\* most responses in one call
MaxIdResponses == 3

\* contributor names; some contain the underscore the conflict id is joined by
IdAgentNames == {"a", "a_b", "b_a"}

IdResponse(agent_name, declares) ==
    EngineResponse(agent_name, "success", IF declares THEN {"security"} ELSE {},
                   {}, <<>>)

\* the lists a call is given: pairwise distinct names, each response with or
\* without a declared conflict
IdResponseLists ==
    UNION {{[i \in 1..Len(names) |-> IdResponse(names[i], declares[i])] :
                declares \in [1..Len(names) -> BOOLEAN]} :
            names \in DistinctListsUpTo(IdAgentNames, MaxIdResponses)}

\* `call` logs the lists given so far, `ret` the values returned
InitIds ==
    /\ call = [fn |-> "analyze_agent_responses*", given |-> <<>>]
    /\ ret = <<>>
    /\ env = NewEngine
    /\ request = NoRequest
    /\ OrchestratorLoaded(NoAgentsLoaded)

\* one more await engine.analyze_agent_responses(agent_responses, context)
AnalyzeAnother ==
    /\ call.fn = "analyze_agent_responses*"
    /\ Len(ret) < MaxIdCalls
    /\ \E agent_responses \in IdResponseLists :
        LET analysis_results == AnalysisResults(env, agent_responses)
        IN  /\ env' = _update_intelligence_state(env, analysis_results, agent_responses)
            /\ ret' = Append(ret, analysis_results)
            /\ call' = [call EXCEPT !.given = Append(@, agent_responses)]
    /\ UNCHANGED orchVars

NextIds == AnalyzeAnother

SpecIds == InitIds /\ [][NextIds]_vars

\* the contributor names of every call so far are pairwise distinct
NamesDistinctPerCall ==
    \A k \in 1..Len(call.given) :
        \A i, j \in 1..Len(call.given[k]) :
            i # j => call.given[k][i].agent_name # call.given[k][j].agent_name

\* C29: over any sequence of analysis calls on one engine in which the names
\* within each call are pairwise distinct, the conflict ids stored in the
\* conflict history are pairwise distinct.
C29_ConflictIdsDistinct ==
    (call.fn = "analyze_agent_responses*" /\ NamesDistinctPerCall)
        => \A i, j \in 1..Len(env.conflict_history) :
            i # j => env.conflict_history[i].conflict_id
                        # env.conflict_history[j].conflict_id

(* ===================== termination of one request ====================== *)
\* the longest batch of consultations a request of TerminationRequests gets
MaxBatch == 3

\* the event loop runs every coroutine that can take a step, and every
\* consultation that was started resolves
Fairness ==
    /\ WF_vars(Begin)
    /\ \A i \in 1..MaxBatch :
            WF_vars(StartConsult(i)) /\ WF_vars(ResolveConsult(i))
    /\ WF_vars(ArchitectResolved)
    /\ WF_vars(Finish)

\* one request for the error return and for each pattern: sequential with one
\* and with two contributors, consensus, mapreduce and hierarchical
TerminationRequests ==
    [objective : {NoObjective, <<"security">>, <<"frontend">>,
                  <<"review", "frontend">>, <<"architecture", "frontend">>},
     technical_requirements : {0, MaxTechReq},
     constraints : {0},
     context : {{}}]

InitTermination ==
    /\ call = NoCall
    /\ ret = Pending
    /\ env = NoEnv
    /\ request \in TerminationRequests
    /\ \E cfg \in AgentConfigs :
        /\ \A a \in AgentNames \ TouchedAgents(request) : cfg[a] = "absent"
        /\ OrchestratorLoaded(cfg)

SpecTermination == InitTermination /\ [][Next]_vars /\ Fairness

\* position of a consultation in its life
TaskRank(st) == CASE st = "pending" -> 0 [] st = "running" -> 1 [] st = "done" -> 2

\* a step that does not replace the batch never takes a consultation back:
\* none is issued a second time
NoConsultationRepeated ==
    (phase' = phase /\ pc = "executing")
        => /\ Len(tasks') = Len(tasks)
           /\ \A i \in 1..Len(tasks) :
                TaskRank(tasks'[i].st) >= TaskRank(tasks[i].st)

\* the batch is set up on entry and replaced only after the architect's step
BatchReplacedAtMostOnce ==
    phase' # phase => (pc = "idle" \/ phase = "architect")

\* the history changes only in the step that returns, with no consultation
\* pending or running, and nothing changes after the return
HistoryUpdatedOnReturnOnly ==
    /\ histVars' # histVars
            => /\ pc = "executing" /\ pc' = "done"
               /\ \A i \in 1..Len(tasks) : tasks[i].st = "done"
               /\ Len(conversation_history') = Len(conversation_history) + 1
    /\ pc = "done" => UNCHANGED vars

\* C30: under every pattern, when every consultation that is started
\* resolves, process_development_request returns; until then no consultation
\* is issued twice and the batch is replaced at most once (finitely many
\* consultations), and the history is updated at most once, in the returning
\* step, after every consultation has resolved.
C30_RequestTerminates ==
    /\ <>(pc = "done")
    /\ [][NoConsultationRepeated /\ BatchReplacedAtMostOnce
            /\ HistoryUpdatedOnReturnOnly]_vars

\* a hierarchical request has returned after the architect's and the
\* specialists' consultations, and its context was recorded once
C30_Witness ==
    /\ pc = "done"
    /\ pattern = "hierarchical"
    /\ phase = "specialists"
    /\ Len(tasks) >= 2
    /\ Len(conversation_history) = 1

====
